---- MODULE Spec2Model ----
(***************************************************************************)
(* Measurement aggregation and recommendation engine of the shade          *)
(* measurement app (utils/aggregate.ts, utils/format.ts).                  *)
(*                                                                         *)
(* Numbers.  The code works on JavaScript numbers.  The model keeps        *)
(* exact arithmetic:                                                       *)
(*   - a dimension is an integer count of units, one unit being            *)
(*     1/(16*SubGrid) inch, so that values off the 1/16 grid exist;        *)
(*   - a confidence is an integer count of hundredths (0.65 is 65);        *)
(*   - a quotient (the average confidence, inches*16) is an exact          *)
(*     fraction [num, den] in lowest terms with den > 0.                   *)
(* OrderSpec alone keeps the average confidence as an IEEE 754 double,     *)
(* where the order of the additions shows.                                 *)
(*                                                                         *)
(* Specifications: Spec (the engine), FormatSpec (utils/format.ts),        *)
(* RefSpec (the pass arrays), ProviderSpec (the capture providers),        *)
(* SessionSpec (the tutorial flow), DebugLogSpec (utils/debugLog.ts),      *)
(* FinalSpec (the final results of the flow variants), OrderSpec.          *)
(***************************************************************************)
EXTENDS Integers, Sequences, FiniteSets, TLC

VARIABLES passes, aggregated, recommendation, value, rounded,
          other, confValue, formatted, heap, owner, refs,
          captureCount, currentDetection, captured, provider, isActive,
          videoElement, variant, screen, mountType, permissionDenied,
          isCapturing, isRequesting, pendingGrants, measurementState, event,
          finalContext, storage, nextRecord, appendCount, written,
          readResult, debugEvent, machineFinal, localFinal, original

vars == <<passes, aggregated, recommendation, value, rounded,
          other, confValue, formatted, heap, owner, refs,
          captureCount, currentDetection, captured, provider, isActive,
          videoElement, variant, screen, mountType, permissionDenied,
          isCapturing, isRequesting, pendingGrants, measurementState, event,
          finalContext, storage, nextRecord, appendCount, written,
          readResult, debugEvent, machineFinal, localFinal, original>>

\* the variables of the aggregation engine's callers
engineVars == <<passes, aggregated, recommendation>>

\* the variables of the formatting utility's callers
formatVars == <<value, rounded, other, confValue, formatted>>

\* the arrays of the session: every array ever built, the one the session
\* holds now, and the arrays behind the last aggregated result
refVars == <<heap, owner, refs>>

\* the variables of the capture provider
providerVars == <<captureCount, currentDetection, captured, provider,
                  isActive, videoElement>>

\* the session flow: which TutorialFlow runs, the screen, the context next
\* to the pass sequence, the measurement context, the last handler that ran
sessionVars == <<variant, screen, mountType, permissionDenied, isCapturing,
                 isRequesting, pendingGrants, measurementState, event,
                 finalContext>>

\* the debug log: the localStorage item, the timestamp of the next record,
\* the appendDebugRecord calls made, the records written since the item was
\* last removed, the last getDebugLog result, the last call that ran
debugVars == <<storage, nextRecord, appendCount, written, readResult,
               debugEvent>>

\* the final results of the other flow variants: calculateFinalResults of
\* the state machine and aggregate of the self-contained page
finalVars == <<machineFinal, localFinal>>

\* the pass sequence in the order it was first handed to the engine
orderVars == <<original>>

\* the variables of the utilities beside the session flow
utilityVars == <<debugVars, finalVars, orderVars>>

\* the variables of the application around the engine
appVars == <<sessionVars, utilityVars>>

----------------------------------------------------------------------------
(* Bounds of the model *)

\* units per sixteenth of an inch (resolution of the raw dimensions)
SubGrid == 4

\* longest pass sequence handed to the engine
MaxPasses == 4

\* largest magnitude, in inches, of a value handed to roundUpToSixteenth
MaxInches == 2

\* units per hundredth of a confidence handed to formatConfidence
ConfGrid == 4

\* most arrays built in one run of the session
MaxArrays == 5

\* Math.random() returns one of the 3 * RandomGrid values k / (3 * RandomGrid)
RandomGrid == 2

\* most captures made with one provider object between two initialize calls
MaxCaptures == 4

\* most passes recorded in one session
MaxSessionPasses == 4

\* longest pass sequence handed to the engine in every order
MaxOrderPasses == 3

\* most passes recorded when the variants' final results are compared
MaxFinalPasses == 3

\* most appendDebugRecord calls in one run
MaxAppends == 3

\* most permission requests whose timer has not fired yet
MaxPendingGrants == 1

----------------------------------------------------------------------------
(* Program constants *)

\* Math.ceil(inches * 16) / 16
SixteenthsPerInch == 16

\* avgConfidence >= 0.85, in hundredths
ExcellentThreshold == 85

\* avgConfidence >= 0.65, in hundredths
OkThreshold == 65

\* avgConfidence < 0.65 in shouldRecommendAdditionalPass, in hundredths
LowConfidenceThreshold == 65

\* log.slice(-100)
MaxDebugRecords == 100

\* passes.length >= 3
MaximumPasses == 3

\* Math.round(confidence * 100)
PercentFactor == 100

\* units in a confidence of 1
Unity == PercentFactor * ConfGrid

\* units in one inch
Inch == SixteenthsPerInch * SubGrid

\* widthVariance > 1 || heightVariance > 1 : one inch, in units
VarianceThreshold == 1 * Inch

----------------------------------------------------------------------------
(* Exact arithmetic *)

Abs(n) == IF n < 0 THEN -n ELSE n

RECURSIVE Gcd(_, _)
Gcd(a, b) == IF b = 0 THEN a ELSE Gcd(b, a % b)

\* num / den as a fraction in lowest terms, den > 0
Quotient(num, den) ==
  LET g == Gcd(Abs(num), den)
  IN  [num |-> num \div g, den |-> den \div g]

\* the integer n as a fraction
Whole(n) == [num |-> n, den |-> 1]

\* a + b, a - b, a * b and a / b of fractions (b > 0 in a / b)
Plus(a, b) == Quotient(a.num * b.den + b.num * a.den, a.den * b.den)

Minus(a, b) == Quotient(a.num * b.den - b.num * a.den, a.den * b.den)

Times(a, b) == Quotient(a.num * b.num, a.den * b.den)

Over(a, b) == Quotient(a.num * b.den, a.den * b.num)

\* q > n, for a fraction q and an integer n
Above(q, n) == q.num > n * q.den

\* q >= n / scale and q < n / scale, for a fraction q and an integer n
AtLeast(q, n) == q.num >= n * q.den

Below(q, n) == q.num < n * q.den

\* Math.ceil of the fraction num/den, den > 0
MathCeil(num, den) == -((-num) \div den)

\* Math.round of the fraction num/den, den > 0 (halves go up)
MathRound(num, den) == (2 * num + den) \div (2 * den)

\* Math.floor of the fraction num/den, den > 0
MathFloor(num, den) == num \div den

\* a % b of JavaScript, b > 0: the sign of the result is the sign of a
JsRemainder(a, b) == IF a >= 0 THEN a % b ELSE -((-a) % b)

RECURSIVE MathMax(_)
MathMax(xs) ==
  IF Len(xs) = 1 THEN xs[1]
  ELSE LET m == MathMax(Tail(xs))
       IN  IF xs[1] > m THEN xs[1] ELSE m

RECURSIVE MathMin(_)
MathMin(xs) ==
  IF Len(xs) = 1 THEN xs[1]
  ELSE LET m == MathMin(Tail(xs))
       IN  IF xs[1] < m THEN xs[1] ELSE m

\* passes.map(f)
Map(xs, f(_)) == [i \in 1..Len(xs) |-> f(xs[i])]

\* passes.reduce((sum, p) => sum + p.confidence, 0)
RECURSIVE SumConfidence(_)
SumConfidence(ps) ==
  IF ps = <<>> THEN 0
  ELSE SumConfidence(SubSeq(ps, 1, Len(ps) - 1)) + ps[Len(ps)].confidence

----------------------------------------------------------------------------
(* utils/format.ts *)

\* roundUpToSixteenth with Math.round in place of Math.ceil
roundUpToSixteenth_round(inches) ==
  LET sixteenths == MathRound(inches * SixteenthsPerInch, Inch)
  IN  (sixteenths * Inch) \div SixteenthsPerInch

\* inches is a count of units; the result is a count of units
\* roundUpToSixteenth that always moves to the next sixteenth:
\* (Math.floor(inches * 16) + 1) / 16
roundUpToSixteenth_next(inches) ==
  LET sixteenths == MathFloor(inches * SixteenthsPerInch, Inch) + 1
  IN  (sixteenths * Inch) \div SixteenthsPerInch

roundUpToSixteenth(inches) ==
  LET sixteenths == MathCeil(inches * SixteenthsPerInch, Inch)
  IN  (sixteenths * Inch) \div SixteenthsPerInch

\* findGCD(a, b)
RECURSIVE findGCD(_, _)
findGCD(a, b) == IF b = 0 THEN a ELSE findGCD(b, JsRemainder(a, b))

\* simplifyFraction that divides by 2 once instead of by the GCD
simplifyFraction_halved(numerator, denominator) ==
  IF numerator % 2 = 0
  THEN [numerator |-> numerator \div 2, denominator |-> denominator \div 2]
  ELSE [numerator |-> numerator, denominator |-> denominator]

simplifyFraction(numerator, denominator) ==
  LET gcd == findGCD(numerator, denominator)
  IN  [numerator |-> numerator \div gcd, denominator |-> denominator \div gcd]

\* formatInchesFraction with one slip, named by bug:
\*   "leadingZero"  the whole === 0 branch is missing
\*   "noRound"      the value is not rounded up first
formatInchesFractionWith(inches, bug) ==
  LET roundedInches ==
        IF bug = "noRound" THEN inches ELSE roundUpToSixteenth(inches)
      whole == MathFloor(roundedInches, Inch)
      remainder == roundedInches - whole * Inch
  IN  IF remainder = 0
      THEN ToString(whole) \o "\""
      ELSE LET sixteenths == MathRound(remainder * SixteenthsPerInch, Inch)
               fraction == simplifyFraction(sixteenths, SixteenthsPerInch)
           IN  IF whole = 0 /\ bug # "leadingZero"
               THEN ToString(fraction.numerator) \o "/"
                      \o ToString(fraction.denominator) \o "\""
               ELSE ToString(whole) \o " " \o ToString(fraction.numerator) \o "/"
                      \o ToString(fraction.denominator) \o "\""

formatInchesFraction_leadingZero(inches) ==
  formatInchesFractionWith(inches, "leadingZero")

formatInchesFraction_noRound(inches) ==
  formatInchesFractionWith(inches, "noRound")

\* inches is a count of units; the result is the text shown to the user
formatInchesFraction(inches) ==
  LET roundedInches == roundUpToSixteenth(inches)
      whole == MathFloor(roundedInches, Inch)
      remainder == roundedInches - whole * Inch
  IN  IF remainder = 0
      THEN ToString(whole) \o "\""
      ELSE LET sixteenths == MathRound(remainder * SixteenthsPerInch, Inch)
               fraction == simplifyFraction(sixteenths, SixteenthsPerInch)
           IN  IF whole = 0
               THEN ToString(fraction.numerator) \o "/"
                      \o ToString(fraction.denominator) \o "\""
               ELSE ToString(whole) \o " " \o ToString(fraction.numerator) \o "/"
                      \o ToString(fraction.denominator) \o "\""

\* formatDimensions that formats the width on both sides
formatDimensions_widthTwice(widthInches, heightInches) ==
  LET width == formatInchesFraction(widthInches)
      height == formatInchesFraction(widthInches)
  IN  width \o " × " \o height

formatDimensions(widthInches, heightInches) ==
  LET width == formatInchesFraction(widthInches)
      height == formatInchesFraction(heightInches)
  IN  width \o " × " \o height

\* formatConfidence with Math.floor in place of Math.round
formatConfidence_floor(c) ==
  ToString(MathFloor(c * PercentFactor, Unity)) \o "%"

\* c is a count of units of 1/Unity; the result is the text shown
formatConfidence(c) ==
  ToString(MathRound(c * PercentFactor, Unity)) \o "%"

----------------------------------------------------------------------------
(* utils/aggregate.ts *)

\* aggregateResults with one slip, named by bug:
\*   "wholePass"   the pass with the widest width supplies the height too
\*   "strict"      the category thresholds compare with > instead of >=
\*   "clamped"     the average confidence is clamped to at most 1
\*   "countCapped" passCount is Math.min(passes.length, 3)
\*   "noGuard"     the empty-sequence guard is missing: Math.max() of
\*                 nothing is -Infinity (a large negative stand-in here)
\*                 and 0/0 is NaN (the fraction 0/0), which fails every
\*                 comparison
aggregateResultsWith(ps, bug) ==
  IF Len(ps) = 0
  THEN IF bug = "noGuard"
       THEN [widthInches |-> -1000000, heightInches |-> -1000000,
             averageConfidence |-> [num |-> 0, den |-> 0],
             category |-> "Not Great", passCount |-> 0, passes |-> ps]
       ELSE [widthInches |-> 0, heightInches |-> 0,
             averageConfidence |-> Whole(0), category |-> "Not Great",
             passCount |-> 0, passes |-> <<>>]
  ELSE LET maxWidth == MathMax(Map(ps, LAMBDA p : p.widthInInches))
           widest == CHOOSE i \in 1..Len(ps) : ps[i].widthInInches = maxWidth
           maxHeight ==
             IF bug = "wholePass" THEN ps[widest].heightInInches
             ELSE MathMax(Map(ps, LAMBDA p : p.heightInInches))
           finalWidth == roundUpToSixteenth(maxWidth)
           finalHeight == roundUpToSixteenth(maxHeight)
           mean == Quotient(SumConfidence(ps), Len(ps))
           avgConfidence ==
             IF bug = "clamped" /\ mean.num > 100 * mean.den THEN Whole(100)
             ELSE mean
           Reaches(n) ==
             IF bug = "strict" THEN avgConfidence.num > n * avgConfidence.den
             ELSE AtLeast(avgConfidence, n)
           category ==
             IF Reaches(ExcellentThreshold) THEN "Excellent"
             ELSE IF Reaches(OkThreshold) THEN "OK"
             ELSE "Not Great"
       IN  [widthInches |-> finalWidth, heightInches |-> finalHeight,
            averageConfidence |-> avgConfidence, category |-> category,
            passCount |-> IF bug = "countCapped" /\ Len(ps) > MaximumPasses
                          THEN MaximumPasses ELSE Len(ps),
            passes |-> ps]

aggregateResults_countCapped(ps) == aggregateResultsWith(ps, "countCapped")

aggregateResults_wholePass(ps) == aggregateResultsWith(ps, "wholePass")

aggregateResults_strict(ps) == aggregateResultsWith(ps, "strict")

aggregateResults_clamped(ps) == aggregateResultsWith(ps, "clamped")

aggregateResults_noGuard(ps) == aggregateResultsWith(ps, "noGuard")

aggregateResults(ps) ==
  IF Len(ps) = 0
  THEN [widthInches |-> 0, heightInches |-> 0,
        averageConfidence |-> Whole(0), category |-> "Not Great",
        passCount |-> 0, passes |-> <<>>]
  ELSE LET maxWidth == MathMax(Map(ps, LAMBDA p : p.widthInInches))
           maxHeight == MathMax(Map(ps, LAMBDA p : p.heightInInches))
           finalWidth == roundUpToSixteenth(maxWidth)
           finalHeight == roundUpToSixteenth(maxHeight)
           avgConfidence == Quotient(SumConfidence(ps), Len(ps))
           category ==
             IF AtLeast(avgConfidence, ExcellentThreshold) THEN "Excellent"
             ELSE IF AtLeast(avgConfidence, OkThreshold) THEN "OK"
             ELSE "Not Great"
       IN  [widthInches |-> finalWidth, heightInches |-> finalHeight,
            averageConfidence |-> avgConfidence, category |-> category,
            passCount |-> Len(ps), passes |-> ps]

\* shouldRecommendAdditionalPass with one slip, named by bug:
\*   "capEquals"      the cap tests passes.length === 3 instead of >= 3
\*   "varianceFirst"  the spread rule is decided before the confidence rule
\*   "inclusive"      the spread rule compares with >= 1 instead of > 1
\*   "lowInclusive"   the confidence rule compares with <= 0.65
\*   "noGuard"        the empty-sequence guard is missing: 0/0 is NaN, which
\*                    fails every comparison, so the chain falls through
shouldRecommendWith(ps, bug) ==
  LET low == [recommend |-> TRUE,
              reason |-> "Low confidence - an additional pass may improve accuracy"]
      vary == [recommend |-> TRUE,
               reason |-> "Measurements vary between passes - an additional pass may help"]
      good == [recommend |-> FALSE, reason |-> "Measurements look good"]
  IN
  IF Len(ps) = 0
  THEN IF bug = "noGuard" THEN good
       ELSE [recommend |-> FALSE, reason |-> "No passes yet"]
  ELSE IF (IF bug = "capEquals" THEN Len(ps) = MaximumPasses
           ELSE Len(ps) >= MaximumPasses)
  THEN [recommend |-> FALSE, reason |-> "Maximum passes reached"]
  ELSE LET avgConfidence == Quotient(SumConfidence(ps), Len(ps))
           isLow ==
             IF bug = "lowInclusive"
             THEN avgConfidence.num <= LowConfidenceThreshold * avgConfidence.den
             ELSE Below(avgConfidence, LowConfidenceThreshold)
           widths == Map(ps, LAMBDA p : p.widthInInches)
           heights == Map(ps, LAMBDA p : p.heightInInches)
           widthVariance == MathMax(widths) - MathMin(widths)
           heightVariance == MathMax(heights) - MathMin(heights)
           Exceeds(v) ==
             IF bug = "inclusive" THEN v >= VarianceThreshold
             ELSE v > VarianceThreshold
           varies ==
             Len(ps) >= 2 /\ (Exceeds(widthVariance) \/ Exceeds(heightVariance))
       IN  IF bug = "varianceFirst"
           THEN IF varies THEN vary ELSE IF isLow THEN low ELSE good
           ELSE IF isLow THEN low ELSE IF varies THEN vary ELSE good

shouldRecommend_capEquals(ps) == shouldRecommendWith(ps, "capEquals")

shouldRecommend_varianceFirst(ps) == shouldRecommendWith(ps, "varianceFirst")

shouldRecommend_inclusive(ps) == shouldRecommendWith(ps, "inclusive")

shouldRecommend_lowInclusive(ps) == shouldRecommendWith(ps, "lowInclusive")

shouldRecommend_noGuard(ps) == shouldRecommendWith(ps, "noGuard")

shouldRecommendAdditionalPass(ps) ==
  IF Len(ps) = 0
  THEN [recommend |-> FALSE, reason |-> "No passes yet"]
  ELSE IF Len(ps) >= MaximumPasses
  THEN [recommend |-> FALSE, reason |-> "Maximum passes reached"]
  ELSE LET avgConfidence == Quotient(SumConfidence(ps), Len(ps))
           widths == Map(ps, LAMBDA p : p.widthInInches)
           heights == Map(ps, LAMBDA p : p.heightInInches)
           widthVariance == MathMax(widths) - MathMin(widths)
           heightVariance == MathMax(heights) - MathMin(heights)
       IN  IF Below(avgConfidence, LowConfidenceThreshold)
           THEN [recommend |-> TRUE,
                 reason |-> "Low confidence - an additional pass may improve accuracy"]
           ELSE IF Len(ps) >= 2
                   /\ (widthVariance > VarianceThreshold
                       \/ heightVariance > VarianceThreshold)
           THEN [recommend |-> TRUE,
                 reason |-> "Measurements vary between passes - an additional pass may help"]
           ELSE [recommend |-> FALSE, reason |-> "Measurements look good"]

\* passes.sort((a, b) => b.widthInInches - a.widthInInches) in place
RECURSIVE SortedByWidth(_)
SortedByWidth(ps) ==
  IF Len(ps) <= 1 THEN ps
  ELSE LET rest == SortedByWidth(Tail(ps))
           wider == SelectSeq(rest, LAMBDA p : p.widthInInches > Head(ps).widthInInches)
           others == SelectSeq(rest, LAMBDA p : p.widthInInches <= Head(ps).widthInInches)
       IN  wider \o <<Head(ps)>> \o others

\* the array after a call that sorted it to find the widest pass
passesAfter_sorted(ps) == SortedByWidth(ps)

\* the array ps after the call aggregateResults(ps): the function reads it
\* with length, map, reduce and spread, none of which writes it
passesAfterAggregateResults(ps) == ps

\* the array ps after the call shouldRecommendAdditionalPass(ps)
passesAfterShouldRecommend(ps) == ps

----------------------------------------------------------------------------
(* Inputs *)

\* tests/aggregate.test.ts createPassResult: the per-pass label of a capture
createPassResult(width, height, confidence) ==
  [widthInInches |-> width, heightInInches |-> height,
   confidence |-> confidence,
   category |-> IF confidence >= ExcellentThreshold THEN "Excellent"
                ELSE IF confidence >= OkThreshold THEN "OK"
                ELSE "Not Great"]

\* a raw dimension below zero, one unit above a grid point
Base == 1 - SubGrid

\* raw (width, height) pairs, in units.  Against the pair at Base one pass
\* is exactly one inch wider, one is more than an inch wider and exactly
\* one inch taller, one is more than an inch taller.
DimPairs ==
  { <<Base, Base>>, <<Base + Inch, Base>>,
    <<Base + Inch + 1, Base + Inch>>, <<Base, Base + Inch + 1>> }

\* confidences in hundredths: low, excellent, and above 1 (not clamped)
ConfValues == { 40, 90, 130 }

PassValues ==
  { createPassResult(d[1], d[2], c) : d \in DimPairs, c \in ConfValues }

\* every pass sequence of length 0 .. MaxPasses
PassSeqs == UNION { [1..n -> PassValues] : n \in 0..MaxPasses }

Values == (-(MaxInches * Inch)) .. (MaxInches * Inch)

\* second arguments of formatDimensions: below zero and off the grid, zero,
\* just above zero, a half inch, one inch and three sixteenths
OtherValues == { -Inch - 1, 0, 1, Inch \div 2, Inch + 3 * SubGrid }

\* arguments of formatConfidence: from -3% to 103% in steps of 1/ConfGrid %
ConfidenceValues == (-(3 * ConfGrid)) .. (Unity + 3 * ConfGrid)

NotCalled == [called |-> FALSE]

----------------------------------------------------------------------------
(* Aggregation engine: the caller holds a pass sequence and calls the two  *)
(* functions on it, in any order and any number of times.                  *)

\* the parts of the state a specification does not use
FormatIdle ==
  /\ value = 0
  /\ rounded = NotCalled
  /\ other = 0
  /\ confValue = 0
  /\ formatted = NotCalled

RefIdle ==
  /\ heap = <<>>
  /\ owner = 0
  /\ refs = NotCalled

ProviderIdle ==
  /\ captureCount = 0
  /\ currentDetection = NotCalled
  /\ captured = NotCalled
  /\ provider = "none"
  /\ isActive = FALSE
  /\ videoElement = FALSE

SessionIdle ==
  /\ variant = "none"
  /\ screen = "none"
  /\ mountType = "null"
  /\ permissionDenied = FALSE
  /\ isCapturing = FALSE
  /\ isRequesting = FALSE
  /\ pendingGrants = 0
  /\ measurementState = "none"
  /\ event = "none"
  /\ finalContext = NotCalled

\* localStorage.getItem(DEBUG_LOG_KEY) === null
NoItem == [present |-> FALSE]

\* the item holds JSON.stringify(log)
Item(log) == [present |-> TRUE, data |-> log]

DebugIdle ==
  /\ storage = NoItem
  /\ nextRecord = 0
  /\ appendCount = 0
  /\ written = <<>>
  /\ readResult = <<>>
  /\ debugEvent = "none"

FinalIdle ==
  /\ machineFinal = NotCalled
  /\ localFinal = NotCalled

OrderIdle ==
  /\ original = <<>>

UtilitiesIdle ==
  /\ DebugIdle
  /\ FinalIdle
  /\ OrderIdle

AppIdle ==
  /\ SessionIdle
  /\ UtilitiesIdle

Init ==
  /\ passes \in PassSeqs
  /\ aggregated = NotCalled
  /\ recommendation = NotCalled
  /\ FormatIdle
  /\ RefIdle
  /\ ProviderIdle
  /\ AppIdle

CallAggregateResults ==
  /\ aggregated' = aggregateResults(passes)
  /\ passes' = passesAfterAggregateResults(passes)
  /\ UNCHANGED <<recommendation, formatVars, refVars, providerVars, appVars>>

CallShouldRecommendAdditionalPass ==
  /\ recommendation' = shouldRecommendAdditionalPass(passes)
  /\ passes' = passesAfterShouldRecommend(passes)
  /\ UNCHANGED <<aggregated, formatVars, refVars, providerVars, appVars>>

Next ==
  \/ CallAggregateResults
  \/ CallShouldRecommendAdditionalPass

Spec == Init /\ [][Next]_vars

----------------------------------------------------------------------------
(* Rounding and formatting utility: the caller hands any value to          *)
(* roundUpToSixteenth, formatInchesFraction and formatDimensions, and any  *)
(* confidence to formatConfidence.                                         *)

FormatInit ==
  /\ \/ value \in Values /\ other \in OtherValues /\ confValue = 0
     \/ value = 0 /\ other = 0 /\ confValue \in ConfidenceValues
  /\ rounded = NotCalled
  /\ formatted = NotCalled
  /\ passes = <<>>
  /\ aggregated = NotCalled
  /\ recommendation = NotCalled
  /\ RefIdle
  /\ ProviderIdle
  /\ AppIdle

CallRoundUpToSixteenth ==
  /\ rounded' = [inches |-> roundUpToSixteenth(value)]
  /\ UNCHANGED <<value, other, confValue, formatted,
                 engineVars, refVars, providerVars, appVars>>

CallFormatInchesFraction ==
  /\ formatted' = [fn |-> "formatInchesFraction",
                   text |-> formatInchesFraction(value)]
  /\ UNCHANGED <<value, other, confValue, rounded,
                 engineVars, refVars, providerVars, appVars>>

CallFormatDimensions ==
  /\ formatted' = [fn |-> "formatDimensions",
                   text |-> formatDimensions(value, other)]
  /\ UNCHANGED <<value, other, confValue, rounded,
                 engineVars, refVars, providerVars, appVars>>

CallFormatConfidence ==
  /\ formatted' = [fn |-> "formatConfidence",
                   text |-> formatConfidence(confValue)]
  /\ UNCHANGED <<value, other, confValue, rounded,
                 engineVars, refVars, providerVars, appVars>>

FormatNext ==
  \/ CallRoundUpToSixteenth
  \/ CallFormatInchesFraction
  \/ CallFormatDimensions
  \/ CallFormatConfidence

FormatSpec == FormatInit /\ [][FormatNext]_vars

----------------------------------------------------------------------------
(* The session and its arrays.  A JavaScript array is an object: heap[a]   *)
(* is the content of the array at address a.  The session holds its pass  *)
(* sequence in React state (owner) and replaces it by a new array on every *)
(* change; refs records, for the last aggregated result, the address it    *)
(* was called with and the address its passes field holds.                 *)

\* the address in the passes field of the result of aggregateResults:
\* the literal [] of the empty case is a new array, `passes` is the argument
aggregateResultsPassesRef_copy(argRef, ps, freshRef) == freshRef

aggregateResultsPassesRef(argRef, ps, freshRef) ==
  IF Len(ps) = 0 THEN freshRef ELSE argRef

\* passes recorded in a session of this specification
RefPassValues ==
  { createPassResult(Base, Base, 40), createPassResult(Base + Inch, Base, 90) }

RefInit ==
  /\ heap = << <<>> >>
  /\ owner = 1
  /\ refs = NotCalled
  /\ passes = <<>>
  /\ aggregated = NotCalled
  /\ recommendation = NotCalled
  /\ FormatIdle
  /\ ProviderIdle
  /\ AppIdle

\* setPasses(prev => [...prev, result])
SetPassesAppend ==
  /\ Len(heap) < MaxArrays
  /\ \E result \in RefPassValues :
       /\ heap' = Append(heap, Append(heap[owner], result))
       /\ passes' = Append(passes, result)
  /\ owner' = Len(heap) + 1
  /\ UNCHANGED <<refs, aggregated, recommendation, formatVars, providerVars,
                 appVars>>

\* restart: setPasses([])
SetPassesEmpty ==
  /\ Len(heap) < MaxArrays
  /\ heap' = Append(heap, <<>>)
  /\ passes' = <<>>
  /\ owner' = Len(heap) + 1
  /\ UNCHANGED <<refs, aggregated, recommendation, formatVars, providerVars,
                 appVars>>

\* aggregateResults(passes) on the array the session holds
RefCallAggregateResults ==
  LET result == aggregateResults(heap[owner])
      fresh == Len(heap) + 1
      ref == aggregateResultsPassesRef(owner, heap[owner], fresh)
  IN  /\ ref = fresh => Len(heap) < MaxArrays
      /\ aggregated' = result
      /\ refs' = [arg |-> owner, passes |-> ref]
      /\ heap' = IF ref = fresh THEN Append(heap, result.passes) ELSE heap
      /\ UNCHANGED <<owner, passes, recommendation, formatVars, providerVars,
                 appVars>>

\* shouldRecommendAdditionalPass(passes): { recommend, reason } holds no array
RefCallShouldRecommendAdditionalPass ==
  /\ recommendation' = shouldRecommendAdditionalPass(heap[owner])
  /\ UNCHANGED <<heap, owner, refs, passes, aggregated, formatVars, providerVars,
                 appVars>>

RefNext ==
  \/ SetPassesAppend
  \/ SetPassesEmpty
  \/ RefCallAggregateResults
  \/ RefCallShouldRecommendAdditionalPass

RefSpec == RefInit /\ [][RefNext]_vars

----------------------------------------------------------------------------
(* providers/MockProvider.ts and providers/WebMeasurementProvider.ts *)

(* In this part a confidence is an exact fraction of hundredths (0.85 is    *)
(* 85/1), a dimension an exact fraction of inches, and a detection's width  *)
(* and height exact fractions of the frame.  The fields x and y of a        *)
(* detection, frameCount, cornerHistory and the stability counters are not  *)
(* read by capture and are left out.                                        *)

\* the values Math.random() returns: k / RandomSteps, 0 <= k < RandomSteps
RandomSteps == 3 * RandomGrid

MathRandom == { Quotient(k, RandomSteps) : k \in 0..(RandomSteps - 1) }

\* the draws behind a dimension: the smallest and the largest value
DimensionRandom == { Quotient(0, 1), Quotient(RandomSteps - 1, RandomSteps) }

\* private baseWidth = 36 and baseHeight = 48, in inches
baseWidth == 36

baseHeight == 48

\* (Math.random() - 0.5) * scale
Variation(r, scale) == Times(Minus(r, Quotient(1, 2)), scale)

NoDetection == [present |-> FALSE]

\* the result of MockProvider.capture once captureCount was incremented to
\* count; rw, rh and rc are the three draws of Math.random()
MockCaptureResult(count, rw, rh, rc) ==
  LET width  == Plus(Whole(baseWidth), Variation(rw, Whole(2)))
      height == Plus(Whole(baseHeight), Variation(rh, Whole(2)))
      confidence ==
        IF count = 1 THEN Plus(Whole(75), Times(rc, Whole(10)))
        ELSE IF count = 2 THEN Plus(Whole(85), Times(rc, Whole(10)))
        ELSE Plus(Whole(80), Times(rc, Whole(15)))
      category ==
        IF count = 1 THEN "OK"
        ELSE IF count = 2 THEN "Excellent"
        ELSE IF Above(confidence, 85) THEN "Excellent" ELSE "OK"
  IN  [widthInInches  |-> width,
       heightInInches |-> height,
       confidence     |-> confidence,
       category       |-> category,
       provider       |-> "mock",
       captureNumber  |-> count]

\* estimatePxToInch() returns null on every path
estimatePxToInch == "null"

\* the detection runDetector builds from three draws of Math.random()
RunDetector(rw, rh, rc) ==
  [present    |-> TRUE,
   width      |-> Plus(Quotient(7, 10), Variation(rw, Quotient(1, 100))),
   height     |-> Plus(Quotient(8, 10), Variation(rh, Quotient(1, 100))),
   confidence |-> Plus(Whole(70), Times(rc, Whole(20)))]

\* the result of WebMeasurementProvider.capture for a detection, once
\* captureCount was incremented to count; pxToInch is null, so the branch
\* without AR scaling runs
WebCaptureResult(count, detection, rw, rh) ==
  LET assumedWindowWidth  == Whole(36)
      assumedWindowHeight == Whole(48)
      widthInches ==
        Plus(Times(assumedWindowWidth, Over(detection.width, Quotient(7, 10))),
             Variation(rw, Whole(2)))
      heightInches ==
        Plus(Times(assumedWindowHeight, Over(detection.height, Quotient(8, 10))),
             Variation(rh, Whole(2)))
      confidence == Times(detection.confidence, Quotient(7, 10))
      category == IF AtLeast(confidence, 65) THEN "OK" ELSE "Not Great"
  IN  [widthInInches  |-> widthInches,
       heightInInches |-> heightInches,
       confidence     |-> confidence,
       category       |-> category,
       provider       |-> "web",
       captureNumber  |-> count]

\* one provider object, just constructed
ProviderInit ==
  /\ provider \in {"mock", "web"}
  /\ captureCount = 0
  /\ currentDetection = NoDetection
  /\ captured = NotCalled
  /\ isActive = FALSE
  /\ videoElement = FALSE
  /\ passes = <<>>
  /\ aggregated = NotCalled
  /\ recommendation = NotCalled
  /\ FormatIdle
  /\ RefIdle
  /\ AppIdle

\* MockProvider.initialize()
MockInitialize ==
  /\ provider = "mock"
  /\ isActive' = TRUE
  /\ captureCount' = 0
  /\ currentDetection' = [present    |-> TRUE,
                          width      |-> Quotient(7, 10),
                          height     |-> Quotient(8, 10),
                          confidence |-> Whole(85)]
  /\ UNCHANGED <<captured, provider, videoElement, engineVars, formatVars,
                 refVars, appVars>>

\* MockProvider.cleanup()
MockCleanup ==
  /\ provider = "mock"
  /\ isActive' = FALSE
  /\ currentDetection' = NoDetection
  /\ UNCHANGED <<captureCount, captured, provider, videoElement, engineVars,
                 formatVars, refVars, appVars>>

\* MockProvider.capture()
MockCapture ==
  /\ provider = "mock"
  /\ captureCount < MaxCaptures
  /\ captureCount' = captureCount + 1
  /\ \E rw \in DimensionRandom, rh \in DimensionRandom, rc \in MathRandom :
       captured' = [called |-> TRUE, threw |-> FALSE,
                    pass |-> MockCaptureResult(captureCount', rw, rh, rc)]
  /\ UNCHANGED <<currentDetection, provider, isActive, videoElement,
                 engineVars, formatVars, refVars, appVars>>

\* WebMeasurementProvider.initialize(): the camera is refused, the video
\* does not start playing, or the provider becomes active
WebInitialize ==
  /\ provider = "web"
  /\ \E outcome \in {"refused", "notPlaying", "active"} :
       /\ videoElement' = IF outcome = "refused" THEN videoElement ELSE TRUE
       /\ isActive' = IF outcome = "active" THEN TRUE ELSE isActive
       /\ captureCount' = IF outcome = "active" THEN 0 ELSE captureCount
  /\ UNCHANGED <<currentDetection, captured, provider, engineVars, formatVars,
                 refVars, appVars>>

\* WebMeasurementProvider.cleanup()
WebCleanup ==
  /\ provider = "web"
  /\ isActive' = FALSE
  /\ videoElement' = FALSE
  /\ currentDetection' = NoDetection
  /\ UNCHANGED <<captureCount, captured, provider, engineVars, formatVars,
                 refVars, appVars>>

\* WebMeasurementProvider.getDetection() when it finds a detection; it
\* changes nothing when the provider is inactive or the frame is empty
WebGetDetection ==
  /\ provider = "web"
  /\ isActive
  /\ videoElement
  /\ \E rw \in DimensionRandom, rh \in DimensionRandom, rc \in MathRandom :
       currentDetection' = RunDetector(rw, rh, rc)
  /\ UNCHANGED <<captureCount, captured, provider, isActive, videoElement,
                 engineVars, formatVars, refVars, appVars>>

\* WebMeasurementProvider.capture()
WebCapture ==
  /\ provider = "web"
  /\ captureCount < MaxCaptures
  /\ captureCount' = captureCount + 1
  /\ IF ~currentDetection.present \/ ~videoElement
       THEN captured' = [called |-> TRUE, threw |-> TRUE]
       ELSE \E rw \in DimensionRandom, rh \in DimensionRandom :
              captured' = [called |-> TRUE, threw |-> FALSE,
                           pass |-> WebCaptureResult(captureCount',
                                                     currentDetection, rw, rh)]
  /\ UNCHANGED <<currentDetection, provider, isActive, videoElement,
                 engineVars, formatVars, refVars, appVars>>

ProviderNext ==
  \/ MockInitialize
  \/ MockCleanup
  \/ MockCapture
  \/ WebInitialize
  \/ WebCleanup
  \/ WebGetDetection
  \/ WebCapture

ProviderSpec == ProviderInit /\ [][ProviderNext]_vars

----------------------------------------------------------------------------
(* The session flow: TutorialFlow of app/page.tsx (variant "page") and the  *)
(* TutorialFlow driven by state/tutorialMachine.ts (variant "machine").     *)
(*                                                                          *)
(* A user event runs to completion before the next one is dispatched.  The  *)
(* permission request and the provider's initialize wait on a 500 ms timer, *)
(* so other events run while they are pending.  capture() of both           *)
(* providers awaits nothing, so a capture settles before the next event;    *)
(* only a further call of handleCapture is placed between its two halves.   *)
(* The debug log that handleCapture writes is modelled on its own below.    *)

\* the passes a capture can return: one of low and one of high confidence
SessionPassValues == RefPassValues

CameraStates == {"pass1", "pass2", "pass3"}

MountTypes == {"inside", "outside"}

null == [called |-> FALSE]

\* calculateFinalResults that rounds its dimensions up as aggregateResults does
calculateFinalResults_rounded(ps) ==
  LET r == aggregateResults(ps)
  IN  [width |-> r.widthInches, height |-> r.heightInches,
       confidence |-> r.averageConfidence, category |-> r.category]

\* tutorialMachine.ts: calculateFinalResults(passes); the dimensions are
\* counts of units and are not rounded
calculateFinalResults(ps) ==
  IF Len(ps) = 0
  THEN [width |-> 0, height |-> 0, confidence |-> Whole(0),
        category |-> "Not Great"]
  ELSE LET width == MathMax(Map(ps, LAMBDA p : p.widthInInches))
           height == MathMax(Map(ps, LAMBDA p : p.heightInInches))
           avgConfidence == Quotient(SumConfidence(ps), Len(ps))
           category ==
             IF AtLeast(avgConfidence, ExcellentThreshold) THEN "Excellent"
             ELSE IF AtLeast(avgConfidence, OkThreshold) THEN "OK"
             ELSE "Not Great"
       IN  [width |-> width, height |-> height,
            confidence |-> avgConfidence, category |-> category]

\* the context of the machine as one value; the four final* fields are
\* assigned together and are held as one field, null or a record
initialContext ==
  [mountType |-> "null", passes |-> <<>>, cameraPermissionDenied |-> FALSE,
   final |-> null]

\* the actions of the machine
setMountType(context, mt) == [context EXCEPT !.mountType = mt]

addPassResult(context, result) ==
  [context EXCEPT !.passes = Append(context.passes, result)]

calculateFinal(context) ==
  LET results == calculateFinalResults(context.passes)
  IN  [context EXCEPT !.final =
         [finalWidth |-> results.width, finalHeight |-> results.height,
          finalConfidence |-> results.confidence,
          finalCategory |-> results.category]]

resetContext(context) == initialContext

\* tutorialMachine with one slip, named by bug:
\*   "settingsToCompletion"  settings.BACK has no guard
tutorialMachineWith(state, context, ev, bug) ==
  LET stay == [value |-> state, context |-> context]
      target(v, c) == [value |-> v, context |-> c]
      add(c) == addPassResult(c, ev.result)
      type == ev.type
  IN  CASE state = "home" ->
             IF type = "START" THEN target("permission", context)
             ELSE IF type = "VIEW_SETTINGS" THEN target("settings", context)
             ELSE stay
        [] state = "permission" ->
             IF type = "PERMISSION_GRANTED"
             THEN target("mountSelection",
                         [context EXCEPT !.cameraPermissionDenied = FALSE])
             ELSE IF type = "PERMISSION_DENIED"
             THEN target(state, [context EXCEPT !.cameraPermissionDenied = TRUE])
             ELSE IF type = "RETRY_PERMISSION"
             THEN target(state, [context EXCEPT !.cameraPermissionDenied = FALSE])
             ELSE IF type = "BACK" THEN target("home", context)
             ELSE stay
        [] state = "mountSelection" ->
             IF type = "SELECT_MOUNT"
             THEN target("pass1", setMountType(context, ev.mountType))
             ELSE IF type = "BACK" THEN target("permission", context)
             ELSE stay
        [] state = "pass1" ->
             IF type = "CAPTURE_COMPLETE" THEN target("pass1Review", add(context))
             ELSE IF type = "BACK" THEN target("mountSelection", context)
             ELSE stay
        [] state = "pass1Review" ->
             IF type = "CONTINUE_TO_PASS2" THEN target("pass2", context)
             ELSE IF type = "BACK" THEN target("pass1", context)
             ELSE stay
        [] state = "pass2" ->
             IF type = "CAPTURE_COMPLETE" THEN target("pass2Review", add(context))
             ELSE IF type = "BACK" THEN target("pass1Review", context)
             ELSE stay
        [] state = "pass2Review" ->
             IF type = "CONTINUE_TO_PASS3" THEN target("pass3", context)
             ELSE IF type \in {"SKIP_PASS3", "VIEW_RESULTS"}
             THEN target("completion", calculateFinal(context))
             ELSE stay
        [] state = "pass3" ->
             IF type = "CAPTURE_COMPLETE"
             THEN target("completion", calculateFinal(add(context)))
             ELSE IF type = "SKIP_PASS3"
             THEN target("completion", calculateFinal(context))
             ELSE IF type = "BACK" THEN target("pass2Review", context)
             ELSE stay
        [] state = "completion" ->
             IF type = "VIEW_DETAILS" THEN target("details", context)
             ELSE IF type = "VIEW_SETTINGS" THEN target("settings", context)
             ELSE IF type = "RESTART"
             THEN target("home", resetContext(context))
             ELSE stay
        [] state = "details" ->
             IF type = "BACK" THEN target("completion", context) ELSE stay
        [] state = "settings" ->
             IF type = "BACK"
             THEN IF context.final # null \/ bug = "settingsToCompletion"
                  THEN target("completion", context)
                  ELSE target("home", context)
             ELSE stay
        [] OTHER -> stay

tutorialMachine_settingsToCompletion(state, context, ev) ==
  tutorialMachineWith(state, context, ev, "settingsToCompletion")

tutorialMachine(state, context, ev) ==
  tutorialMachineWith(state, context, ev, "none")

\* state.context of the machine variant
Context ==
  [mountType |-> mountType, passes |-> passes,
   cameraPermissionDenied |-> permissionDenied, final |-> finalContext]

\* page.tsx: finalResults, computed at every render
finalResults == IF Len(passes) > 0 THEN aggregateResults(passes) ELSE null

\* shouldRecommendAdditionalPass(passes), computed when a review screen renders
Recommended == shouldRecommendAdditionalPass(passes)

\* no handler is between its two halves
Settled == ~isCapturing

SessionInit ==
  /\ variant \in {"page", "machine"}
  /\ screen = "home"
  /\ mountType = "null"
  /\ permissionDenied = FALSE
  /\ isCapturing = FALSE
  /\ isRequesting = FALSE
  /\ pendingGrants = 0
  /\ measurementState = "idle"
  /\ event = "none"
  /\ finalContext = null
  /\ passes = <<>>
  /\ aggregated = NotCalled
  /\ recommendation = NotCalled
  /\ FormatIdle
  /\ RefIdle
  /\ ProviderIdle
  /\ UtilitiesIdle

\* what a handler of either variant leaves alone; the debug log that
\* handleCapture and the settings screen write is followed in DebugLogSpec
Untouched == <<variant, aggregated, recommendation, formatVars, refVars,
               providerVars, utilityVars>>

\* page.tsx: goToScreen(s) in the handler called name; leaving the permission
\* screen unmounts it and its isRequesting with it
goToScreen(name, s) ==
  /\ variant = "page"
  /\ Settled
  /\ screen' = s
  /\ event' = name
  /\ isRequesting' = (isRequesting /\ s = "permission")
  /\ UNCHANGED <<mountType, permissionDenied, isCapturing, pendingGrants,
                 measurementState, finalContext, passes, Untouched>>

\* the machine variant: send(ev) in the handler called name
send(name, ev) ==
  LET next == tutorialMachine(screen, Context, ev)
  IN  /\ variant = "machine"
      /\ screen' = next.value
      /\ mountType' = next.context.mountType
      /\ passes' = next.context.passes
      /\ permissionDenied' = next.context.cameraPermissionDenied
      /\ finalContext' = next.context.final
      /\ event' = name
      /\ isRequesting' = (isRequesting /\ next.value = "permission")

sendOnly(name, ev) ==
  /\ Settled
  /\ send(name, ev)
  /\ UNCHANGED <<isCapturing, pendingGrants, measurementState, Untouched>>

(* MeasurementProvider.tsx *)

\* what provider.capture() does: it resolves with a pass or it throws
CaptureOutcomes ==
  {[threw |-> TRUE]} \cup {[threw |-> FALSE, pass |-> p] : p \in SessionPassValues}

\* capture() of the measurement context: null without an initialized
\* provider and when the provider throws, the provider's pass otherwise
measurementCapture(state, outcome) ==
  IF state # "initialized" THEN null
  ELSE IF outcome.threw THEN null
  ELSE outcome.pass

\* the effect of TutorialFlow on a camera screen: measurement.initialize()
\* up to its await
InitializeEffect ==
  /\ screen \in CameraStates
  /\ measurementState = "idle"
  /\ measurementState' = "initializing"
  /\ event' = "initialize"
  /\ UNCHANGED <<screen, mountType, permissionDenied, isCapturing, isRequesting,
                 pendingGrants, finalContext, passes, Untouched>>

\* MockProvider.initialize() resolves true: setIsInitialized(true)
InitializeSettled ==
  /\ measurementState = "initializing"
  /\ measurementState' = "initialized"
  /\ event' = "initialized"
  /\ UNCHANGED <<screen, mountType, permissionDenied, isCapturing, isRequesting,
                 pendingGrants, finalContext, passes, Untouched>>

(* app/page.tsx *)

PageOnStart == screen = "home" /\ goToScreen("onStart", "permission")

PageHomeOnSettings == screen = "home" /\ goToScreen("onSettings", "settings")

\* PermissionScreen.requestPermission up to its await
PageRequestPermission ==
  /\ variant = "page"
  /\ Settled
  /\ screen = "permission"
  /\ ~isRequesting
  /\ pendingGrants < MaxPendingGrants
  /\ isRequesting' = TRUE
  /\ pendingGrants' = pendingGrants + 1
  /\ event' = "requestPermission"
  /\ UNCHANGED <<screen, mountType, permissionDenied, isCapturing,
                 measurementState, finalContext, passes, Untouched>>

\* the timer of requestPermission fires: onGranted()
PageOnGranted ==
  /\ variant = "page"
  /\ Settled
  /\ pendingGrants > 0
  /\ pendingGrants' = pendingGrants - 1
  /\ permissionDenied' = FALSE
  /\ screen' = "mountSelection"
  /\ isRequesting' = FALSE
  /\ event' = "onGranted"
  /\ UNCHANGED <<mountType, isCapturing, measurementState, finalContext, passes,
                 Untouched>>

PagePermissionOnBack == screen = "permission" /\ goToScreen("onBack", "home")

PageOnSelect ==
  /\ variant = "page"
  /\ Settled
  /\ screen = "mountSelection"
  /\ \E mt \in MountTypes : mountType' = mt
  /\ screen' = "pass1"
  /\ event' = "onSelect"
  /\ UNCHANGED <<permissionDenied, isCapturing, isRequesting, pendingGrants,
                 measurementState, finalContext, passes, Untouched>>

PageMountSelectionOnBack ==
  screen = "mountSelection" /\ goToScreen("onBack", "permission")

PageCameraOnBack ==
  /\ screen \in CameraStates
  /\ goToScreen("onBack",
                IF screen = "pass1" THEN "mountSelection"
                ELSE IF screen = "pass2" THEN "pass1Review" ELSE "pass2Review")

\* handleCapture up to its await; the button is disabled while isCapturing
\* or before the provider is initialized
PageHandleCapture ==
  /\ variant = "page"
  /\ screen \in CameraStates
  /\ ~isCapturing
  /\ measurementState = "initialized"
  /\ Len(passes) < MaxSessionPasses
  /\ isCapturing' = TRUE
  /\ event' = "handleCapture"
  /\ UNCHANGED <<screen, mountType, permissionDenied, isRequesting,
                 pendingGrants, measurementState, finalContext, passes,
                 Untouched>>

\* handleCapture called while isCapturing: if (isCapturing) return
PageHandleCaptureWhileCapturing ==
  /\ variant = "page"
  /\ isCapturing
  /\ event' = "captureIgnored"
  /\ UNCHANGED <<screen, mountType, permissionDenied, isCapturing, isRequesting,
                 pendingGrants, measurementState, finalContext, passes,
                 Untouched>>

\* handleCapture after its await, with one slip named by bug:
\*   "replace"  setPasses([result]) : the earlier passes are dropped
\*   "stuck"    setIsCapturing(false) runs only after a pass was recorded
PageCaptureSettledWith(outcome, bug) ==
  LET result == measurementCapture(measurementState, outcome)
  IN  /\ variant = "page"
      /\ isCapturing
      /\ IF result # null
           THEN /\ passes' = IF bug = "replace" THEN <<result>>
                             ELSE Append(passes, result)
                /\ screen' = IF screen = "pass1" THEN "pass1Review"
                             ELSE IF screen = "pass2" THEN "pass2Review"
                             ELSE IF screen = "pass3" THEN "completion"
                             ELSE screen
                /\ event' = "captured"
           ELSE /\ passes' = passes
                /\ screen' = screen
                /\ event' = "captureFailed"
      /\ isCapturing' = (bug = "stuck" /\ result = null)
      /\ UNCHANGED <<mountType, permissionDenied, isRequesting, pendingGrants,
                     measurementState, finalContext, Untouched>>

PageCaptureSettled_replace(outcome) == PageCaptureSettledWith(outcome, "replace")

PageCaptureSettled_stuck(outcome) == PageCaptureSettledWith(outcome, "stuck")

PageCaptureSettledOn(outcome) == PageCaptureSettledWith(outcome, "none")

PageCaptureSettled == \E outcome \in CaptureOutcomes : PageCaptureSettledOn(outcome)

\* PassReviewScreen.onContinue with one slip, named by bug:
\*   "always"  pass 3 is offered whatever the recommendation
PageReviewOnContinueWith(bug) ==
  /\ screen \in {"pass1Review", "pass2Review"}
  /\ goToScreen("onContinue",
                IF screen = "pass1Review" THEN "pass2"
                ELSE IF Recommended.recommend \/ bug = "always" THEN "pass3"
                ELSE "completion")

PageReviewOnContinue_always == PageReviewOnContinueWith("always")

PageReviewOnContinue == PageReviewOnContinueWith("none")

PageOnSkipToResults ==
  screen = "pass2Review" /\ goToScreen("onSkipToResults", "completion")

PageReviewOnBack ==
  /\ screen \in {"pass1Review", "pass2Review"}
  /\ goToScreen("onBack", IF screen = "pass1Review" THEN "pass1" ELSE "pass2")

\* the completion screen renders nothing unless finalResults is set
PageOnViewDetails ==
  /\ screen = "completion"
  /\ finalResults # null
  /\ goToScreen("onViewDetails", "details")

PageCompletionOnSettings ==
  /\ screen = "completion"
  /\ finalResults # null
  /\ goToScreen("onSettings", "settings")

PageRestart ==
  /\ variant = "page"
  /\ Settled
  /\ screen = "completion"
  /\ finalResults # null
  /\ measurementState' = "idle"
  /\ passes' = <<>>
  /\ mountType' = "null"
  /\ permissionDenied' = FALSE
  /\ screen' = "home"
  /\ event' = "restart"
  /\ UNCHANGED <<isCapturing, isRequesting, pendingGrants, finalContext,
                 Untouched>>

PageDetailsOnBack == screen = "details" /\ goToScreen("onBack", "completion")

PageSettingsOnBack ==
  /\ screen = "settings"
  /\ goToScreen("onBack", IF finalResults # null THEN "completion" ELSE "home")

(* the TutorialFlow that drives tutorialMachine *)

MachineOnStart == screen = "home" /\ sendOnly("onStart", [type |-> "START"])

MachineHomeOnSettings ==
  screen = "home" /\ sendOnly("onSettings", [type |-> "VIEW_SETTINGS"])

MachineRequestPermission ==
  /\ variant = "machine"
  /\ Settled
  /\ screen = "permission"
  /\ ~isRequesting
  /\ pendingGrants < MaxPendingGrants
  /\ isRequesting' = TRUE
  /\ pendingGrants' = pendingGrants + 1
  /\ event' = "requestPermission"
  /\ UNCHANGED <<screen, mountType, permissionDenied, isCapturing,
                 measurementState, finalContext, passes, Untouched>>

\* the timer of requestPermission fires: send PERMISSION_GRANTED
MachineOnGranted ==
  /\ Settled
  /\ pendingGrants > 0
  /\ pendingGrants' = pendingGrants - 1
  /\ send("onGranted", [type |-> "PERMISSION_GRANTED"])
  /\ UNCHANGED <<isCapturing, measurementState, Untouched>>

MachinePermissionOnBack ==
  screen = "permission" /\ sendOnly("onBack", [type |-> "BACK"])

MachineOnSelect ==
  /\ screen = "mountSelection"
  /\ \E mt \in MountTypes :
       sendOnly("onSelect", [type |-> "SELECT_MOUNT", mountType |-> mt])

MachineMountSelectionOnBack ==
  screen = "mountSelection" /\ sendOnly("onBack", [type |-> "BACK"])

MachineCameraOnBack ==
  screen \in CameraStates /\ sendOnly("onBack", [type |-> "BACK"])

MachineHandleCapture ==
  /\ variant = "machine"
  /\ screen \in CameraStates
  /\ ~isCapturing
  /\ measurementState = "initialized"
  /\ Len(passes) < MaxSessionPasses
  /\ isCapturing' = TRUE
  /\ event' = "handleCapture"
  /\ UNCHANGED <<screen, mountType, permissionDenied, isRequesting,
                 pendingGrants, measurementState, finalContext, passes,
                 Untouched>>

MachineHandleCaptureWhileCapturing ==
  /\ variant = "machine"
  /\ isCapturing
  /\ event' = "captureIgnored"
  /\ UNCHANGED <<screen, mountType, permissionDenied, isCapturing, isRequesting,
                 pendingGrants, measurementState, finalContext, passes,
                 Untouched>>

MachineCaptureSettled ==
  /\ variant = "machine"
  /\ isCapturing
  /\ isCapturing' = FALSE
  /\ \E outcome \in CaptureOutcomes :
       LET result == measurementCapture(measurementState, outcome)
       IN  IF result # null
           THEN send("captured", [type |-> "CAPTURE_COMPLETE", result |-> result])
           ELSE /\ event' = "captureFailed"
                /\ UNCHANGED <<screen, mountType, permissionDenied, isRequesting,
                               finalContext, passes>>
  /\ UNCHANGED <<pendingGrants, measurementState, Untouched>>

MachineReviewOnContinue ==
  /\ screen \in {"pass1Review", "pass2Review"}
  /\ sendOnly("onContinue",
              IF screen = "pass1Review" THEN [type |-> "CONTINUE_TO_PASS2"]
              ELSE IF Recommended.recommend THEN [type |-> "CONTINUE_TO_PASS3"]
              ELSE [type |-> "VIEW_RESULTS"])

MachineOnSkipToResults ==
  screen = "pass2Review" /\ sendOnly("onSkipToResults", [type |-> "VIEW_RESULTS"])

\* the machine has no BACK in pass2Review: the event is dropped there
MachineReviewOnBack ==
  /\ screen \in {"pass1Review", "pass2Review"}
  /\ sendOnly("onBack", [type |-> "BACK"])

MachineOnViewDetails ==
  screen = "completion" /\ sendOnly("onViewDetails", [type |-> "VIEW_DETAILS"])

MachineCompletionOnSettings ==
  screen = "completion" /\ sendOnly("onSettings", [type |-> "VIEW_SETTINGS"])

\* onRestart: measurement.cleanup(); send RESTART
MachineRestart ==
  /\ Settled
  /\ screen = "completion"
  /\ measurementState' = "idle"
  /\ send("restart", [type |-> "RESTART"])
  /\ UNCHANGED <<isCapturing, pendingGrants, Untouched>>

MachineDetailsOnBack ==
  screen = "details" /\ sendOnly("onBack", [type |-> "BACK"])

MachineSettingsOnBack ==
  screen = "settings" /\ sendOnly("onBack", [type |-> "BACK"])

SessionNext ==
  \/ InitializeEffect
  \/ InitializeSettled
  \/ PageOnStart
  \/ PageHomeOnSettings
  \/ PageRequestPermission
  \/ PageOnGranted
  \/ PagePermissionOnBack
  \/ PageOnSelect
  \/ PageMountSelectionOnBack
  \/ PageCameraOnBack
  \/ PageHandleCapture
  \/ PageHandleCaptureWhileCapturing
  \/ PageCaptureSettled
  \/ PageReviewOnContinue
  \/ PageOnSkipToResults
  \/ PageReviewOnBack
  \/ PageOnViewDetails
  \/ PageCompletionOnSettings
  \/ PageRestart
  \/ PageDetailsOnBack
  \/ PageSettingsOnBack
  \/ MachineOnStart
  \/ MachineHomeOnSettings
  \/ MachineRequestPermission
  \/ MachineOnGranted
  \/ MachinePermissionOnBack
  \/ MachineOnSelect
  \/ MachineMountSelectionOnBack
  \/ MachineCameraOnBack
  \/ MachineHandleCapture
  \/ MachineHandleCaptureWhileCapturing
  \/ MachineCaptureSettled
  \/ MachineReviewOnContinue
  \/ MachineOnSkipToResults
  \/ MachineReviewOnBack
  \/ MachineOnViewDetails
  \/ MachineCompletionOnSettings
  \/ MachineRestart
  \/ MachineDetailsOnBack
  \/ MachineSettingsOnBack

SessionSpec == SessionInit /\ [][SessionNext]_vars

----------------------------------------------------------------------------
(* utils/debugLog.ts *)

(* A record is named by its timestamp, a count of captures: handleCapture    *)
(* appends one record per captured pass and the passes of one browser are    *)
(* captured one after the other.  The item is written by this module only,   *)
(* so it is absent or holds the JSON text of an array of records, which      *)
(* JSON.parse reads back record for record.                                  *)

\* array.slice(start) for start <= 0: the last -start elements, all of them
\* when the array is shorter
slice(array, start) ==
  LET from == IF Len(array) + start < 0 THEN 0 ELSE Len(array) + start
  IN  [i \in 1..(Len(array) - from) |-> array[from + i]]

\* array.slice(0, end): the first end elements
sliceTo(array, end) ==
  [i \in 1..(IF Len(array) < end THEN Len(array) ELSE end) |-> array[i]]

\* getDebugLog(): [] when there is no item
getDebugLog(item) ==
  IF ~item.present THEN <<>> ELSE item.data

\* the log appendDebugRecord hands to setItem, with one slip, named by bug:
\*   "oldest"   log.slice(0, 100) keeps the oldest records
\*   "noTrim"   the log is not trimmed
trimmedLogWith(item, record, bug) ==
  LET log == Append(getDebugLog(item), record)
  IN  CASE bug = "oldest" -> sliceTo(log, MaxDebugRecords)
        [] bug = "noTrim" -> log
        [] OTHER -> slice(log, -MaxDebugRecords)

trimmedLog_oldest(item, record) == trimmedLogWith(item, record, "oldest")

trimmedLog_noTrim(item, record) == trimmedLogWith(item, record, "noTrim")

\* log.push(record); log.slice(-100)
trimmedLog(item, record) == trimmedLogWith(item, record, "none")

\* the records this module has left in the item: 1 .. n, oldest first
OldRecords(n) == [i \in 1..n |-> i]

\* the browser was never used, or earlier sessions left 1 to 100 records
DebugLogInit ==
  /\ \E n \in 0..MaxDebugRecords :
       /\ storage = IF n = 0 THEN NoItem ELSE Item(OldRecords(n))
       /\ written = OldRecords(n)
       /\ nextRecord = n + 1
  /\ appendCount = 0
  /\ readResult = <<>>
  /\ debugEvent = "none"
  /\ passes = <<>>
  /\ aggregated = NotCalled
  /\ recommendation = NotCalled
  /\ FormatIdle
  /\ RefIdle
  /\ ProviderIdle
  /\ SessionIdle
  /\ FinalIdle
  /\ OrderIdle

\* appendDebugRecord(result, providerType): setItem stores the trimmed log
\* or throws, and the throw is swallowed
AppendDebugRecord ==
  /\ appendCount < MaxAppends
  /\ appendCount' = appendCount + 1
  /\ nextRecord' = nextRecord + 1
  /\ \E stored \in BOOLEAN :
       IF stored
       THEN /\ storage' = Item(trimmedLog(storage, nextRecord))
            /\ written' = Append(written, nextRecord)
            /\ debugEvent' = "appended"
       ELSE /\ storage' = storage
            /\ written' = written
            /\ debugEvent' = "appendFailed"
  /\ UNCHANGED <<readResult, engineVars, formatVars, refVars, providerVars,
                 sessionVars, finalVars, orderVars>>

\* getDebugLog() of the settings screen
GetDebugLog ==
  /\ readResult' = getDebugLog(storage)
  /\ debugEvent' = "read"
  /\ UNCHANGED <<storage, nextRecord, appendCount, written, engineVars,
                 formatVars, refVars, providerVars, sessionVars, finalVars, orderVars>>

\* clearDebugLog(): removeItem removes the item or throws, and the throw is
\* swallowed
ClearDebugLog ==
  /\ \E removed \in BOOLEAN :
       IF removed
       THEN /\ storage' = NoItem
            /\ written' = <<>>
            /\ debugEvent' = "cleared"
       ELSE /\ storage' = storage
            /\ written' = written
            /\ debugEvent' = "clearFailed"
  /\ UNCHANGED <<nextRecord, appendCount, readResult, engineVars, formatVars,
                 refVars, providerVars, sessionVars, finalVars, orderVars>>

DebugLogNext ==
  \/ AppendDebugRecord
  \/ GetDebugLog
  \/ ClearDebugLog

DebugLogSpec == DebugLogInit /\ [][DebugLogNext]_vars

----------------------------------------------------------------------------
(* Properties of the aggregation engine, under Spec *)

\* the input of the calls: widths, heights and the total confidence of passes
Widths == { passes[i].widthInInches : i \in 1..Len(passes) }

Heights == { passes[i].heightInInches : i \in 1..Len(passes) }

TotalConfidence ==
  LET total[i \in 0..Len(passes)] ==
        IF i = 0 THEN 0 ELSE total[i - 1] + passes[i].confidence
  IN  total[Len(passes)]

\* max(S) - min(S) > 1 inch, for a non-empty set of raw dimensions
RangeExceedsInch(S) == \E a \in S, b \in S : a - b > Inch

\* the smallest multiple of 1/16 inch that is >= v
OnGrid(r) == r % SubGrid = 0

IsSixteenthAbove(r, v) == OnGrid(r) /\ r >= v /\ r - v < SubGrid

LowReason == "Low confidence - an additional pass may improve accuracy"

VaryReason == "Measurements vary between passes - an additional pass may help"

GoodReason == "Measurements look good"

\* C1: for a non-empty pass sequence the aggregated width is the greatest
\* raw width rounded up to 1/16 inch and the aggregated height is the
\* greatest raw height rounded up, each maximum taken on its own.
C1_MaxPerDimension ==
  (aggregated # NotCalled /\ Len(passes) > 0) =>
    /\ \E w \in Widths :
         /\ \A x \in Widths : x <= w
         /\ aggregated.widthInches = roundUpToSixteenth(w)
         /\ IsSixteenthAbove(aggregated.widthInches, w)
    /\ \E h \in Heights :
         /\ \A x \in Heights : x <= h
         /\ aggregated.heightInches = roundUpToSixteenth(h)
         /\ IsSixteenthAbove(aggregated.heightInches, h)

\* C1 witness: the widest pass is not the tallest one, and the aggregate was
\* computed and rounded the width up.
C1_Witness ==
  /\ aggregated # NotCalled
  /\ \E i, j \in 1..Len(passes) :
       /\ passes[i].widthInInches > passes[j].widthInInches
       /\ passes[j].heightInInches > passes[i].heightInInches
       /\ \A k \in 1..Len(passes) :
            /\ passes[k].widthInInches <= passes[i].widthInInches
            /\ passes[k].heightInInches <= passes[j].heightInInches
       /\ aggregated.widthInches > passes[i].widthInInches

\* C3: with 3 or more passes the recommendation is always recommend = false,
\* 'Maximum passes reached', whatever the confidences and the spread.
C3_CapOverrides ==
  (recommendation # NotCalled /\ Len(passes) >= 3) =>
    recommendation = [recommend |-> FALSE, reason |-> "Maximum passes reached"]

\* C3 witness: more than 3 passes of low mean confidence and of a spread
\* above one inch, and the recommendation was computed.
C3_Witness ==
  /\ recommendation # NotCalled
  /\ Len(passes) > 3
  /\ TotalConfidence < 65 * Len(passes)
  /\ RangeExceedsInch(Widths)

\* C4: with 1 or 2 passes of mean confidence below 0.65 the recommendation
\* is recommend = true with the low-confidence reason, also when the spread
\* exceeds one inch.
C4_LowConfidenceFirst ==
  (/\ recommendation # NotCalled
   /\ Len(passes) \in {1, 2}
   /\ TotalConfidence < 65 * Len(passes)) =>
    recommendation = [recommend |-> TRUE, reason |-> LowReason]

\* C4 witness: two passes of low mean confidence whose heights are more than
\* one inch apart, and the recommendation was computed.
C4_Witness ==
  /\ recommendation # NotCalled
  /\ Len(passes) = 2
  /\ passes[1].confidence + passes[2].confidence < 130
  /\ RangeExceedsInch(Heights)

\* C5: with exactly 2 passes of mean confidence at least 0.65 the
\* recommendation is recommend = true with the spread reason if and only if
\* the raw widths or the raw heights are more than one inch apart.
C5_VarianceRule ==
  (/\ recommendation # NotCalled
   /\ Len(passes) = 2
   /\ passes[1].confidence + passes[2].confidence >= 130) =>
    LET dw == passes[1].widthInInches - passes[2].widthInInches
        dh == passes[1].heightInInches - passes[2].heightInInches
        apart == dw > Inch \/ -dw > Inch \/ dh > Inch \/ -dh > Inch
    IN  /\ apart => recommendation = [recommend |-> TRUE, reason |-> VaryReason]
        /\ ~apart => /\ recommendation.recommend = FALSE
                     /\ recommendation.reason # VaryReason

\* C5 witness: two passes of good mean confidence whose widths are exactly
\* one inch apart and whose heights are no further apart, and the
\* recommendation was computed.
C5_Witness ==
  /\ recommendation # NotCalled
  /\ Len(passes) = 2
  /\ passes[1].confidence + passes[2].confidence >= 130
  /\ passes[1].widthInInches - passes[2].widthInInches = Inch
  /\ ~RangeExceedsInch(Heights)

\* C6: the recommendation is recommend = false, 'Measurements look good',
\* exactly when there are 1 or 2 passes, the mean confidence is at least
\* 0.65 and neither dimension's range exceeds one inch; a single pass of
\* confidence at least 0.65 always gets it.
C6_LooksGood ==
  recommendation # NotCalled =>
    /\ (recommendation.reason = GoodReason) <=>
         /\ Len(passes) \in {1, 2}
         /\ TotalConfidence >= 65 * Len(passes)
         /\ ~RangeExceedsInch(Widths)
         /\ ~RangeExceedsInch(Heights)
    /\ recommendation.reason = GoodReason => recommendation.recommend = FALSE
    /\ (Len(passes) = 1 /\ passes[1].confidence >= 65) =>
         recommendation = [recommend |-> FALSE, reason |-> GoodReason]

\* C6 witness: a single pass of confidence at least 0.65, and the
\* recommendation was computed.
C6_Witness ==
  /\ recommendation # NotCalled
  /\ Len(passes) = 1
  /\ passes[1].confidence >= 65

\* C7: for a non-empty pass sequence the aggregated category is 'Excellent'
\* when the mean confidence is >= 0.85, 'OK' when it is >= 0.65 and < 0.85,
\* 'Not Great' when it is < 0.65; it depends on the confidences only.
C7_CategoryThresholds ==
  (aggregated # NotCalled /\ Len(passes) > 0) =>
    /\ TotalConfidence >= 85 * Len(passes) => aggregated.category = "Excellent"
    /\ (TotalConfidence >= 65 * Len(passes) /\ TotalConfidence < 85 * Len(passes))
         => aggregated.category = "OK"
    /\ TotalConfidence < 65 * Len(passes) => aggregated.category = "Not Great"

\* C7 witness: the mean confidence is exactly 0.65, no pass carries the
\* label 'OK', and the aggregate was computed.
C7_Witness ==
  /\ aggregated # NotCalled
  /\ Len(passes) > 0
  /\ TotalConfidence = 65 * Len(passes)
  /\ \A i \in 1..Len(passes) : passes[i].category # "OK"

\* C8: for a non-empty pass sequence the aggregated averageConfidence is the
\* sum of the confidences divided by the number of passes, not clamped.
C8_AverageConfidence ==
  (aggregated # NotCalled /\ Len(passes) > 0) =>
    /\ aggregated.averageConfidence.den > 0
    /\ aggregated.averageConfidence.num * Len(passes)
         = TotalConfidence * aggregated.averageConfidence.den

\* C8 witness: several passes whose mean confidence is above 1 and is not a
\* whole number of hundredths, and the aggregate was computed.
C8_Witness ==
  /\ aggregated # NotCalled
  /\ Len(passes) > 1
  /\ TotalConfidence > 100 * Len(passes)
  /\ TotalConfidence % Len(passes) # 0

\* C9: for the empty sequence the aggregate is width 0, height 0, average
\* confidence 0, pass count 0 and category 'Not Great'.
C9_EmptyAggregate ==
  (aggregated # NotCalled /\ passes = <<>>) =>
    /\ aggregated.widthInches = 0
    /\ aggregated.heightInches = 0
    /\ aggregated.averageConfidence.num = 0
    /\ aggregated.averageConfidence.den # 0
    /\ aggregated.passCount = 0
    /\ aggregated.category = "Not Great"

\* C9 witness: the aggregate of the empty sequence was computed.
C9_Witness == aggregated # NotCalled /\ passes = <<>>

\* C10: for the empty sequence the recommendation is recommend = false,
\* 'No passes yet'.
C10_EmptyRecommendation ==
  (recommendation # NotCalled /\ passes = <<>>) =>
    recommendation = [recommend |-> FALSE, reason |-> "No passes yet"]

\* C10 witness: the recommendation for the empty sequence was computed.
C10_Witness == recommendation # NotCalled /\ Len(passes) = 0

\* C17: the aggregated passCount is the length of the sequence given.
C17_PassCount ==
  aggregated # NotCalled => aggregated.passCount = Len(passes)

\* C17 witness: a sequence longer than the recommendation cap was aggregated.
C17_Witness ==
  /\ aggregated # NotCalled
  /\ Len(passes) > MaximumPasses
  /\ aggregated.passCount > MaximumPasses

----------------------------------------------------------------------------
(* Properties of the session's arrays, under RefSpec *)

\* C19 as stated: nothing aggregateResults returns shares the caller's
\* sequence.
C19_SharesNothing ==
  refs # NotCalled => refs.passes # refs.arg

\* C19 amended: the result of aggregateResults on a non-empty sequence holds
\* the caller's array itself in its passes field (on the empty sequence a
\* new empty array); the session never writes an array in place, it builds
\* a new one, so a result returned earlier, its passes field included,
\* keeps its content; shouldRecommendAdditionalPass returns only a flag and
\* a text.
C19_SharesButNeverWritten ==
  [][/\ refs' # NotCalled =>
          /\ (refs'.passes = refs'.arg) <=> (Len(heap'[refs'.arg]) > 0)
          /\ heap'[refs'.passes] = aggregated'.passes
     /\ \A a \in 1..Len(heap) : heap'[a] = heap[a]
     /\ passes' = heap'[owner']
     /\ DOMAIN recommendation' \subseteq {"called", "recommend", "reason"}]_vars

\* C19 witness: a result was returned for a non-empty array, it holds that
\* array, and the session has since appended a pass.
C19_Witness ==
  /\ refs # NotCalled
  /\ refs.passes = refs.arg
  /\ owner # refs.arg
  /\ Len(heap[owner]) > Len(heap[refs.passes])
  /\ Len(heap[refs.passes]) > 0
  /\ aggregated.passes = heap[refs.passes]

----------------------------------------------------------------------------
(* The final results of the three flow variants on one pass sequence:      *)
(* aggregateResults (page.tsx), calculateFinalResults (tutorialMachine.ts) *)
(* and aggregate (the self-contained page).                                *)

\* Math.ceil(n * 16) / 16 of the self-contained page
roundUp(n) ==
  LET sixteenths == MathCeil(n * SixteenthsPerInch, Inch)
  IN  (sixteenths * Inch) \div SixteenthsPerInch

\* aggregate(passes) of the self-contained page
aggregate(ps) ==
  IF Len(ps) = 0 THEN null
  ELSE LET maxW == MathMax(Map(ps, LAMBDA p : p.widthInInches))
           maxH == MathMax(Map(ps, LAMBDA p : p.heightInInches))
           avgConf == Quotient(SumConfidence(ps), Len(ps))
       IN  [width |-> roundUp(maxW),
            height |-> roundUp(maxH),
            confidence |-> avgConf,
            category |->
              IF AtLeast(avgConf, ExcellentThreshold) THEN "Excellent"
              ELSE IF AtLeast(avgConf, OkThreshold) THEN "OK"
              ELSE "Not Great",
            passCount |-> Len(ps)]

\* raw (width, height) pairs, in units: more than an inch below zero and off
\* the grid, just below zero, just above the first sixteenth, one inch
FinalDimPairs ==
  { <<-Inch - 1, Base>>, <<Base, Inch>>,
    <<SubGrid + 1, -Inch - 1>>, <<Inch, SubGrid + 1>> }

\* confidences in hundredths: low and excellent
FinalConfValues == { 40, 90 }

FinalPassValues ==
  { createPassResult(d[1], d[2], c) : d \in FinalDimPairs,
                                      c \in FinalConfValues }

FinalInit ==
  /\ passes = <<>>
  /\ aggregated = NotCalled
  /\ recommendation = NotCalled
  /\ machineFinal = NotCalled
  /\ localFinal = NotCalled
  /\ FormatIdle
  /\ RefIdle
  /\ ProviderIdle
  /\ SessionIdle
  /\ DebugIdle
  /\ OrderIdle

\* a pass is recorded: [...passes, result]; the results computed from the
\* shorter sequence are gone with the render that computed them
RecordPass ==
  /\ Len(passes) < MaxFinalPasses
  /\ \E p \in FinalPassValues : passes' = Append(passes, p)
  /\ aggregated' = NotCalled
  /\ machineFinal' = NotCalled
  /\ localFinal' = NotCalled
  /\ UNCHANGED <<recommendation, formatVars, refVars, providerVars,
                 sessionVars, debugVars, orderVars>>

\* page.tsx: aggregateResults(passes)
FinalAggregateResults ==
  /\ aggregated' = aggregateResults(passes)
  /\ UNCHANGED <<passes, recommendation, machineFinal, localFinal, formatVars,
                 refVars, providerVars, sessionVars, debugVars, orderVars>>

\* tutorialMachine.ts: calculateFinalResults(context.passes)
FinalCalculateFinalResults ==
  /\ machineFinal' = calculateFinalResults(passes)
  /\ UNCHANGED <<passes, aggregated, recommendation, localFinal, formatVars,
                 refVars, providerVars, sessionVars, debugVars, orderVars>>

\* the self-contained page: aggregate(passes)
FinalAggregate ==
  /\ localFinal' = aggregate(passes)
  /\ UNCHANGED <<passes, aggregated, recommendation, machineFinal, formatVars,
                 refVars, providerVars, sessionVars, debugVars, orderVars>>

FinalNext ==
  \/ RecordPass
  \/ FinalAggregateResults
  \/ FinalCalculateFinalResults
  \/ FinalAggregate

FinalSpec == FinalInit /\ [][FinalNext]_vars

----------------------------------------------------------------------------
(* The engine on JavaScript numbers.  A Number is an IEEE 754 double: the   *)
(* sum and the quotient behind avgConfidence are rounded to 53 significant  *)
(* bits after every operation.  A non-negative double below 256 and not     *)
(* below 1/128 is held exactly as a string of Width bits, bit j weighing    *)
(* 2^(j - 1 - FractionBits), cut into Limbs digits of LimbBits bits, the    *)
(* lowest first.  The dimensions stay counts of units: Math.max picks one   *)
(* of its arguments and  * 16 / 16  scales by a power of two, so no         *)
(* rounding happens on them.                                                *)

\* significant bits of a double
Precision == 53

\* bits below the binary point
FractionBits == 60

\* bits of a digit, and digits of a Number
LimbBits == 17

Limbs == 4

Radix == 2^LimbBits

Width == LimbBits * Limbs

Zero == [m \in 1..Limbs |-> 0]

\* the integer n, 0 <= n < 256
FromInteger(n) ==
  [m \in 1..Limbs |->
     IF m < Limbs THEN 0 ELSE n * 2^(FractionBits - LimbBits * (Limbs - 1))]

\* bit j of a, 1 <= j <= Width
Bit(a, j) ==
  (a[(j - 1) \div LimbBits + 1] \div 2^((j - 1) % LimbBits)) % 2

\* digits m .. Limbs of a + b + carry
RECURSIVE SumFrom(_, _, _, _)
SumFrom(a, b, m, carry) ==
  IF m > Limbs THEN <<>>
  ELSE <<(a[m] + b[m] + carry) % Radix>>
         \o SumFrom(a, b, m + 1, (a[m] + b[m] + carry) \div Radix)

\* the exact sum a + b
ExactSum(a, b) == SumFrom(a, b, 1, 0)

\* long division of digits m .. 1 of a by n, rest being what the digits
\* above m left over: the digits of the quotient, highest first, and then
\* the rest of the division
RECURSIVE QuotientFrom(_, _, _, _)
QuotientFrom(a, n, m, rest) ==
  IF m = 0 THEN <<rest>>
  ELSE <<(rest * Radix + a[m]) \div n>>
         \o QuotientFrom(a, n, m - 1, (rest * Radix + a[m]) % n)

\* the exact quotient a / n for an integer n > 0, cut off below the last bit;
\* inexact says that something was cut off
ExactQuotient(a, n) ==
  LET division == QuotientFrom(a, n, Limbs, 0)
  IN  [digits |-> [m \in 1..Limbs |-> division[Limbs + 1 - m]],
       inexact |-> division[Limbs + 1] # 0]

\* the position of the leading 1 of a, 0 when a is zero
LeadingBit(a) ==
  LET ones == { j \in 1..Width : Bit(a, j) = 1 }
  IN  IF ones = {} THEN 0 ELSE CHOOSE j \in ones : \A k \in ones : k <= j

\* rounding to a double: to nearest, and on a tie to the even neighbour
RoundToDouble(a, inexact) ==
  LET dropped == LeadingBit(a) - Precision
  IN  IF dropped <= 0 THEN a
      ELSE LET kept ==
                 [m \in 1..Limbs |->
                    IF dropped >= m * LimbBits THEN 0
                    ELSE IF dropped <= (m - 1) * LimbBits THEN a[m]
                    ELSE a[m] - (a[m] % 2^(dropped - (m - 1) * LimbBits))]
               half == Bit(a, dropped) = 1
               more == inexact \/ \E j \in 1..(dropped - 1) : Bit(a, j) = 1
               odd == Bit(a, dropped + 1) = 1
               lastPlace ==
                 [m \in 1..Limbs |->
                    IF m = dropped \div LimbBits + 1
                    THEN 2^(dropped % LimbBits) ELSE 0]
           IN  IF half /\ (more \/ odd)
               THEN ExactSum(kept, lastPlace)
               ELSE kept

\* a + b of two Numbers
NumberSum(a, b) == RoundToDouble(ExactSum(a, b), FALSE)

\* a / n of a Number and an integer Number
NumberQuotient(a, n) ==
  LET q == ExactQuotient(a, n)
  IN  RoundToDouble(q.digits, q.inexact)

\* a < b and a >= b of two Numbers
NumberLess(a, b) ==
  \E m \in 1..Limbs : a[m] < b[m] /\ \A k \in (m + 1)..Limbs : a[k] = b[k]

NumberAtLeast(a, b) == ~NumberLess(a, b)

\* the Number a literal of c hundredths denotes: 0.65 is Literal(65)
Literal(c) == NumberQuotient(FromInteger(c), PercentFactor)

\* passes.reduce((sum, p) => sum + p.confidence, 0) on Numbers
RECURSIVE NumberSumConfidence(_)
NumberSumConfidence(ps) ==
  IF ps = <<>> THEN Zero
  ELSE NumberSum(NumberSumConfidence(SubSeq(ps, 1, Len(ps) - 1)),
                 Literal(ps[Len(ps)].confidence))

\* aggregateResults(passes) with avgConfidence a Number
aggregateResultsOnNumbers(ps) ==
  IF Len(ps) = 0
  THEN [widthInches |-> 0, heightInches |-> 0,
        averageConfidence |-> Zero, category |-> "Not Great",
        passCount |-> 0, passes |-> <<>>]
  ELSE LET maxWidth == MathMax(Map(ps, LAMBDA p : p.widthInInches))
           maxHeight == MathMax(Map(ps, LAMBDA p : p.heightInInches))
           finalWidth == roundUpToSixteenth(maxWidth)
           finalHeight == roundUpToSixteenth(maxHeight)
           avgConfidence == NumberQuotient(NumberSumConfidence(ps), Len(ps))
           category ==
             IF NumberAtLeast(avgConfidence, Literal(ExcellentThreshold))
             THEN "Excellent"
             ELSE IF NumberAtLeast(avgConfidence, Literal(OkThreshold))
             THEN "OK"
             ELSE "Not Great"
       IN  [widthInches |-> finalWidth, heightInches |-> finalHeight,
            averageConfidence |-> avgConfidence, category |-> category,
            passCount |-> Len(ps), passes |-> ps]

\* shouldRecommendAdditionalPass(passes) with avgConfidence a Number, and
\* with one slip named by bug:
\*   "lastLessFirst"  the variances are the last value less the first
shouldRecommendOnNumbersWith(ps, bug) ==
  IF Len(ps) = 0
  THEN [recommend |-> FALSE, reason |-> "No passes yet"]
  ELSE IF Len(ps) >= MaximumPasses
  THEN [recommend |-> FALSE, reason |-> "Maximum passes reached"]
  ELSE LET avgConfidence == NumberQuotient(NumberSumConfidence(ps), Len(ps))
           widths == Map(ps, LAMBDA p : p.widthInInches)
           heights == Map(ps, LAMBDA p : p.heightInInches)
           widthVariance ==
             IF bug = "lastLessFirst" THEN widths[Len(ps)] - widths[1]
             ELSE MathMax(widths) - MathMin(widths)
           heightVariance ==
             IF bug = "lastLessFirst" THEN heights[Len(ps)] - heights[1]
             ELSE MathMax(heights) - MathMin(heights)
       IN  IF NumberLess(avgConfidence, Literal(LowConfidenceThreshold))
           THEN [recommend |-> TRUE,
                 reason |-> "Low confidence - an additional pass may improve accuracy"]
           ELSE IF Len(ps) >= 2
                   /\ (widthVariance > VarianceThreshold
                       \/ heightVariance > VarianceThreshold)
           THEN [recommend |-> TRUE,
                 reason |-> "Measurements vary between passes - an additional pass may help"]
           ELSE [recommend |-> FALSE, reason |-> "Measurements look good"]

shouldRecommendOnNumbers_lastLessFirst(ps) ==
  shouldRecommendOnNumbersWith(ps, "lastLessFirst")

shouldRecommendOnNumbers(ps) == shouldRecommendOnNumbersWith(ps, "none")

\* passes of two sizes with confidences 0.12, 0.84 and 0.99
OrderPassValues ==
  { createPassResult(Base, Base + Inch, 12),
    createPassResult(Base + Inch + 1, Base, 84),
    createPassResult(Base, Base + Inch, 99) }

OrderInit ==
  /\ original \in UNION { [1..n -> OrderPassValues] : n \in 0..MaxOrderPasses }
  /\ passes = original
  /\ aggregated = NotCalled
  /\ recommendation = NotCalled
  /\ FormatIdle
  /\ RefIdle
  /\ ProviderIdle
  /\ SessionIdle
  /\ DebugIdle
  /\ FinalIdle

\* the caller hands over the same passes in another order: two neighbours
\* change places
Reorder ==
  /\ \E i \in 1..(Len(passes) - 1) :
       /\ passes[i] # passes[i + 1]
       /\ passes' = [passes EXCEPT ![i] = passes[i + 1], ![i + 1] = passes[i]]
  /\ aggregated' = NotCalled
  /\ recommendation' = NotCalled
  /\ UNCHANGED <<original, formatVars, refVars, providerVars, sessionVars,
                 debugVars, finalVars>>

OrderAggregateResults ==
  /\ aggregated' = aggregateResultsOnNumbers(passes)
  /\ UNCHANGED <<passes, recommendation, original, formatVars, refVars,
                 providerVars, sessionVars, debugVars, finalVars>>

OrderShouldRecommend ==
  /\ recommendation' = shouldRecommendOnNumbers(passes)
  /\ UNCHANGED <<passes, aggregated, original, formatVars, refVars,
                 providerVars, sessionVars, debugVars, finalVars>>

OrderNext ==
  \/ Reorder
  \/ OrderAggregateResults
  \/ OrderShouldRecommend

OrderSpec == OrderInit /\ [][OrderNext]_vars

----------------------------------------------------------------------------
(* Properties of the debug log, under DebugLogSpec *)

\* the last n elements of s, all of s when it is shorter
MostRecent(s, n) ==
  LET m == IF Len(s) < n THEN Len(s) ELSE n
  IN  SubSeq(s, Len(s) - m + 1, Len(s))

\* C24: after every call the stored debug log holds at most 100 records, and
\* they are the most recent of the records whose write succeeded since the
\* log was last cleared, oldest first; a getDebugLog that follows a
\* clearDebugLog whose removal succeeded returns the empty list
C24_LastHundredInOrder ==
  [][/\ Len(getDebugLog(storage')) <= 100
     /\ getDebugLog(storage') = MostRecent(written', 100)
     /\ (debugEvent = "cleared" /\ debugEvent' = "read") => readResult' = <<>>
    ]_vars

\* the log was full, three records were appended and the three oldest are gone
C24_Witness ==
  /\ debugEvent = "appended"
  /\ Len(getDebugLog(storage)) = 100
  /\ getDebugLog(storage)[1] = 4
  /\ getDebugLog(storage)[100] = 103

----------------------------------------------------------------------------
(* Properties of the variants' final results, under FinalSpec *)

\* all three final results were computed from the recorded passes
AllComputed ==
  /\ Len(passes) > 0
  /\ aggregated # NotCalled
  /\ machineFinal # NotCalled
  /\ localFinal # NotCalled

\* C28, as stated: for a non-empty pass sequence calculateFinalResults and
\* aggregate give the width, height, average confidence and category that
\* aggregateResults gives
C28_SameFinalResults ==
  AllComputed =>
    /\ machineFinal.width = aggregated.widthInches
    /\ machineFinal.height = aggregated.heightInches
    /\ machineFinal.confidence = aggregated.averageConfidence
    /\ machineFinal.category = aggregated.category
    /\ localFinal.width = aggregated.widthInches
    /\ localFinal.height = aggregated.heightInches
    /\ localFinal.confidence = aggregated.averageConfidence
    /\ localFinal.category = aggregated.category

\* what the three do agree on: aggregate gives what aggregateResults gives;
\* calculateFinalResults gives the same average confidence and category and
\* the maxima of the raw dimensions, not rounded, whose rounding up is what
\* aggregateResults gives, so the completion screen shows the same text
C28_SameShownResults ==
  AllComputed =>
    /\ localFinal.width = aggregated.widthInches
    /\ localFinal.height = aggregated.heightInches
    /\ localFinal.confidence = aggregated.averageConfidence
    /\ localFinal.category = aggregated.category
    /\ machineFinal.confidence = aggregated.averageConfidence
    /\ machineFinal.category = aggregated.category
    /\ machineFinal.width \in Widths
    /\ \A w \in Widths : w <= machineFinal.width
    /\ machineFinal.height \in Heights
    /\ \A h \in Heights : h <= machineFinal.height
    /\ roundUpToSixteenth(machineFinal.width) = aggregated.widthInches
    /\ roundUpToSixteenth(machineFinal.height) = aggregated.heightInches
    /\ formatDimensions(machineFinal.width, machineFinal.height)
         = formatDimensions(aggregated.widthInches, aggregated.heightInches)

\* two passes off the sixteenth grid: the machine stores another width than
\* aggregateResults returns
C28_StoredWidthDiffers ==
  /\ AllComputed
  /\ Len(passes) = 2
  /\ machineFinal.width # aggregated.widthInches
  /\ localFinal.width = aggregated.widthInches

\* a pass was appended to the recorded passes in this step
Appended == Len(passes') = Len(passes) + 1

\* aggregateResults of the longer sequence is not below that of the shorter
NotDecreased ==
  /\ aggregateResults(passes').widthInches
       >= aggregateResults(passes).widthInches
  /\ aggregateResults(passes').heightInches
       >= aggregateResults(passes).heightInches

\* every recorded dimension is non-negative
NonNegative(ps) ==
  \A i \in 1..Len(ps) : ps[i].widthInInches >= 0 /\ ps[i].heightInInches >= 0

\* each final dimension is at least every recorded raw value of it
CoversEveryPass(ps) ==
  \A i \in 1..Len(ps) :
    /\ aggregateResults(ps).widthInches >= ps[i].widthInInches
    /\ aggregateResults(ps).heightInches >= ps[i].heightInInches

\* C30, as stated: for every pass sequence s and every pass p the final
\* dimensions of s followed by p are not below those of s, and each final
\* dimension is at least every recorded raw value when all are non-negative
C30_NeverDecreases ==
  [][Appended =>
       /\ NotDecreased
       /\ NonNegative(passes') => CoversEveryPass(passes')]_vars

\* C30, amended: the final dimensions of s followed by p are not below those
\* of s when s is not empty or the dimensions of p are not negative (the
\* final dimensions of the empty sequence are 0, above a negative pass), and
\* each final dimension is at least every recorded raw value, whatever the
\* signs
C30_NeverDecreasesOnceRecorded ==
  [][Appended =>
       /\ (passes # <<>> \/ NonNegative(passes')) => NotDecreased
       /\ CoversEveryPass(passes')]_vars

\* a wider pass followed a pass with a negative height, and the final width
\* went up
C30_Witness ==
  /\ Len(passes) = 2
  /\ aggregated # NotCalled
  /\ passes[1].heightInInches < 0
  /\ passes[2].widthInInches > passes[1].widthInInches
  /\ aggregated.widthInches > roundUpToSixteenth(passes[1].widthInInches)

----------------------------------------------------------------------------
(* Properties of the engine on JavaScript numbers, under OrderSpec *)

\* C29, as stated: the results for a pass sequence in any order are those
\* for the sequence in its first order: the same widthInches, heightInches,
\* category and passCount of the aggregate, the same recommend flag and
\* reason
C29_OrderIndependent ==
  /\ aggregated # NotCalled =>
       LET first == aggregateResultsOnNumbers(original)
       IN  /\ aggregated.widthInches = first.widthInches
           /\ aggregated.heightInches = first.heightInches
           /\ aggregated.category = first.category
           /\ aggregated.passCount = first.passCount
  /\ recommendation # NotCalled =>
       recommendation = shouldRecommendOnNumbers(original)

\* C29, amended: widthInches, heightInches and passCount of the aggregate
\* and the recommend flag and reason do not depend on the order, and for
\* fewer than three passes neither do averageConfidence and category; from
\* three passes on the rounded sum of the confidences depends on the order
C29_OrderIndependentParts ==
  /\ aggregated # NotCalled =>
       LET first == aggregateResultsOnNumbers(original)
       IN  /\ aggregated.widthInches = first.widthInches
           /\ aggregated.heightInches = first.heightInches
           /\ aggregated.passCount = first.passCount
           /\ Len(passes) < 3 =>
                /\ aggregated.averageConfidence = first.averageConfidence
                /\ aggregated.category = first.category
  /\ recommendation # NotCalled =>
       recommendation = shouldRecommendOnNumbers(original)

\* three passes in another order: the same dimensions, another average
\* confidence and another category
C29_Witness ==
  /\ aggregated # NotCalled
  /\ recommendation # NotCalled
  /\ Len(passes) = 3
  /\ passes # original
  /\ aggregated.widthInches = aggregateResultsOnNumbers(original).widthInches
  /\ aggregated.averageConfidence
       # aggregateResultsOnNumbers(original).averageConfidence
  /\ aggregated.category # aggregateResultsOnNumbers(original).category

----------------------------------------------------------------------------
(* Properties of the session flow, under SessionSpec *)

\* b is a followed by exactly one more pass
ExtendsByOne(a, b) == Len(b) = Len(a) + 1 /\ SubSeq(b, 1, Len(a)) = a

\* C21: the pass sequence is append-only during a session: every step other
\* than restart leaves it unchanged or adds exactly one pass at its end,
\* keeping the earlier passes in order; restart empties it, resets the mount
\* type and returns to the home screen.
C21_AppendOnly ==
  [][IF event' = "restart"
     THEN passes' = <<>> /\ mountType' = "null" /\ screen' = "home"
     ELSE passes' = passes \/ ExtendsByOne(passes, passes')]_vars

\* C21 witness: a capture has just put a second pass behind a different first
\* one.
C21_Witness ==
  /\ event = "captured"
  /\ Len(passes) = 2
  /\ passes[1] # passes[2]

\* C22: the pass-3 capture screen is entered only from the pass-2 review and
\* only when shouldRecommendAdditionalPass on the current passes recommends;
\* when it does not, both buttons of the pass-2 review lead to completion.
C22_PassThreeOnlyWhenRecommended ==
  [][/\ (screen' = "pass3" /\ screen # "pass3") =>
          (screen = "pass2Review" /\ Recommended.recommend)
     /\ (/\ screen = "pass2Review"
         /\ ~Recommended.recommend
         /\ event' \in {"onContinue", "onSkipToResults"}) =>
          screen' = "completion"]_vars

\* C22 witness: Continue on the pass-2 review has just opened pass 3 for two
\* passes that call for another one.
C22_Witness ==
  /\ screen = "pass3"
  /\ event = "onContinue"
  /\ Len(passes) = 2
  /\ Recommended.recommend

\* C23: when a capture fails the measurement context returns null, no pass is
\* appended, the screen stays, and isCapturing goes back to false; a capture
\* request made while isCapturing is true changes nothing.
C23_FailedCapture ==
  [][/\ event' = "captureFailed" =>
          /\ isCapturing
          /\ passes' = passes
          /\ screen' = screen
          /\ ~isCapturing'
     /\ event' = "captureIgnored" =>
          /\ isCapturing
          /\ isCapturing'
          /\ passes' = passes
          /\ screen' = screen]_vars

\* C23 witness: the second capture of a session has just failed, the first
\* pass is still the only one and a new capture can start.
C23_Witness ==
  /\ event = "captureFailed"
  /\ screen = "pass2"
  /\ Len(passes) = 1
  /\ ~isCapturing
  /\ measurementState = "initialized"

\* C25: in the current page the pass sequence never holds more than 3 passes,
\* holds exactly 1 on the pass-1 review and exactly 2 on the pass-2 review.
\* Back on a review screen followed by another capture breaks all three.
C25_PassCounts ==
  variant = "page" =>
    /\ Len(passes) <= MaximumPasses
    /\ screen = "pass1Review" => Len(passes) = 1
    /\ screen = "pass2Review" => Len(passes) = 2

\* C26: in the current page the completion screen shows results of at least
\* 2 passes.  Settings reached from home leads back to completion as soon as
\* one pass is recorded.
C26_CompletionNeedsTwoPasses ==
  (variant = "page" /\ screen = "completion" /\ finalResults # null) =>
    Len(passes) >= 2

\* C27: whenever the completion screen is rendered the values it asserts
\* non-null are set: mountType in the current page; mountType and the four
\* final values in the machine variant.
C27_CompletionValuesSet ==
  screen = "completion" =>
    /\ (variant = "page" /\ finalResults # null) => mountType # "null"
    /\ variant = "machine" => (mountType # "null" /\ finalContext # null)

\* C27 witness: the machine is back on completion from settings, with its
\* final values computed from two passes.
C27_Witness ==
  /\ variant = "machine"
  /\ screen = "completion"
  /\ event = "onBack"
  /\ finalContext # null
  /\ Len(passes) = 2

----------------------------------------------------------------------------
(* Properties of the capture providers, under ProviderSpec *)

\* the category the engine's thresholds give a confidence
StandardCategory(confidence) ==
  IF AtLeast(confidence, ExcellentThreshold) THEN "Excellent"
  ELSE IF AtLeast(confidence, OkThreshold) THEN "OK"
  ELSE "Not Great"

\* a capture returned a pass record
PassCaptured == captured # NotCalled /\ ~captured.threw

\* C20: every pass record a capture provider returns carries the category
\* the standard thresholds give its own confidence: 'Excellent' when the
\* confidence is >= 0.85, 'OK' when it is >= 0.65, 'Not Great' otherwise.
\* MockProvider.capture breaks it on its third and later captures when the
\* confidence is exactly 0.85.
C20_CategoryFollowsThresholds ==
  PassCaptured => captured.pass.category = StandardCategory(captured.pass.confidence)

----------------------------------------------------------------------------
(* Properties of the rounding utility, under FormatSpec *)

\* C2: roundUpToSixteenth returns the smallest multiple of 1/16 that is >=
\* the value: on the grid, not below the value, less than 1/16 above it, no
\* grid point lies between, and a value on the grid is returned unchanged.
C2_SmallestSixteenthAbove ==
  rounded # NotCalled =>
    /\ IsSixteenthAbove(rounded.inches, value)
    /\ \A g \in (value - Inch)..(value + Inch) :
         (OnGrid(g) /\ g >= value) => rounded.inches <= g
    /\ OnGrid(value) => rounded.inches = value

\* C2 witness: a negative value off the grid was rounded, toward zero.
C2_Witness ==
  /\ rounded # NotCalled
  /\ value < 0
  /\ ~OnGrid(value)
  /\ rounded.inches > value

\* the least grid point at or above v
LeastSixteenthAbove(v) == CHOOSE g \in v..(v + SubGrid) : IsSixteenthAbove(g, v)

\* the whole inches below a length r, and what is left, in units
WholeInches(r) ==
  CHOOSE k \in (-(MaxInches + 3))..(MaxInches + 3) :
    k * Inch <= r /\ r < (k + 1) * Inch

Remainder(r) == r - WholeInches(r) * Inch

\* the fractions n/d with n odd in 1..15 and d one of 2, 4, 8, 16
LowestTerms == { nd \in (1..15) \X {2, 4, 8, 16} : nd[1] % 2 = 1 /\ nd[1] < nd[2] }

FractionText(nd) == ToString(nd[1]) \o "/" \o ToString(nd[2])

\* the text the format contract asks for a raw length v
ContractText(v) ==
  LET r == LeastSixteenthAbove(v)
      w == WholeInches(r)
      rem == Remainder(r)
  IN  IF rem = 0 THEN ToString(w) \o "\""
      ELSE LET nd == CHOOSE x \in LowestTerms : x[1] * Inch = rem * x[2]
           IN  IF w = 0 THEN FractionText(nd) \o "\""
               ELSE ToString(w) \o " " \o FractionText(nd) \o "\""

\* C11: formatInchesFraction splits the rounded value into whole inches and
\* a remainder in [0, 1) and emits the whole number alone when the remainder
\* is zero, the fraction alone when it is not and the whole is 0, the whole,
\* a space and the fraction when it is not and the whole is above 0; every
\* text is one of these three shapes and ends in the inch mark.
C11_ThreeShapes ==
  (formatted # NotCalled /\ formatted.fn = "formatInchesFraction") =>
    LET r == LeastSixteenthAbove(value)
        w == WholeInches(r)
        rem == Remainder(r)
        alone == ToString(w) \o "\""
        fractions == { FractionText(nd) \o "\"" : nd \in LowestTerms }
        mixed == { ToString(w) \o " " \o f : f \in fractions }
    IN  /\ rem \in 0..(Inch - 1)
        /\ rem = 0 => formatted.text = alone
        /\ (rem # 0 /\ w = 0) => formatted.text \in fractions
        /\ (rem # 0 /\ w > 0) => formatted.text \in mixed
        /\ formatted.text \in ({alone} \cup fractions \cup mixed)

\* C11 witness: a value between 0 and 1 inch, off the grid, was formatted as
\* a fraction alone.
C11_Witness ==
  /\ formatted # NotCalled
  /\ formatted.fn = "formatInchesFraction"
  /\ value > 0
  /\ value < Inch - SubGrid
  /\ ~OnGrid(value)

\* C12: an emitted fraction is n/16 in lowest terms: n odd in 1..15, the
\* denominator one of 2, 4, 8, 16, no common divisor, and n/d equal to the
\* remainder of the rounded value.
C12_LowestTerms ==
  (/\ formatted # NotCalled
   /\ formatted.fn = "formatInchesFraction"
   /\ Remainder(LeastSixteenthAbove(value)) # 0) =>
    LET r == LeastSixteenthAbove(value)
        w == WholeInches(r)
    IN  \E nd \in LowestTerms :
          /\ nd[1] * Inch = Remainder(r) * nd[2]
          /\ \A k \in 2..16 : ~(nd[1] % k = 0 /\ nd[2] % k = 0)
          /\ formatted.text \in { FractionText(nd) \o "\"",
                                  ToString(w) \o " " \o FractionText(nd) \o "\"" }

\* C12 witness: a value whose rounded remainder is 12/16 was formatted (the
\* fraction is reduced twice, to 3/4).
C12_Witness ==
  /\ formatted # NotCalled
  /\ formatted.fn = "formatInchesFraction"
  /\ Remainder(LeastSixteenthAbove(value)) = 12 * SubGrid

\* C13: formatInchesFraction rounds up before formatting: the text for a
\* value is the text for roundUpToSixteenth of the value.
C13_RoundsBeforeFormatting ==
  (formatted # NotCalled /\ formatted.fn = "formatInchesFraction") =>
    /\ formatted.text = formatInchesFraction(roundUpToSixteenth(value))
    /\ formatted.text = ContractText(LeastSixteenthAbove(value))

\* C13 witness: a value above one inch, one unit above a grid point, was
\* formatted (rounding to the nearest sixteenth would go down).
C13_Witness ==
  /\ formatted # NotCalled
  /\ formatted.fn = "formatInchesFraction"
  /\ value > Inch
  /\ value % SubGrid = 1

\* C14: roundUpToSixteenth is idempotent.
C14_Idempotent ==
  rounded # NotCalled => roundUpToSixteenth(rounded.inches) = rounded.inches

\* C14 witness: a positive value off the grid was rounded, and moved.
C14_Witness ==
  /\ rounded # NotCalled
  /\ value > 0
  /\ ~OnGrid(value)
  /\ rounded.inches # value

\* C15: formatDimensions(width, height) is the text of the width, a space,
\* the multiplication sign, a space and the text of the height, each side
\* rounded up and reduced on its own.
C15_Dimensions ==
  (formatted # NotCalled /\ formatted.fn = "formatDimensions") =>
    /\ formatted.text = ContractText(value) \o " × " \o ContractText(other)
    /\ formatted.text
         = formatInchesFraction(value) \o " × " \o formatInchesFraction(other)

\* C15 witness: a width and a height that round and reduce differently were
\* formatted together.
C15_Witness ==
  /\ formatted # NotCalled
  /\ formatted.fn = "formatDimensions"
  /\ ~OnGrid(value)
  /\ other = Inch \div 2
  /\ LeastSixteenthAbove(value) # other

\* C16: formatConfidence(c) is the integer round(c * 100), halves rounded
\* up, followed by '%', with no decimal places and no clamping.
C16_ConfidencePercent ==
  (formatted # NotCalled /\ formatted.fn = "formatConfidence") =>
    \E k \in (-4)..(PercentFactor + 4) :
      /\ (2 * k - 1) * Unity <= 2 * PercentFactor * confValue
      /\ 2 * PercentFactor * confValue < (2 * k + 1) * Unity
      /\ formatted.text = ToString(k) \o "%"

\* C16 witness: a confidence above 1 whose percentage is exactly k + 0.5 was
\* formatted.
C16_Witness ==
  /\ formatted # NotCalled
  /\ formatted.fn = "formatConfidence"
  /\ confValue > Unity
  /\ (2 * PercentFactor * confValue) % (2 * Unity) = Unity

====
